---- MODULE Spec2Model ----
(***************************************************************************)
(* ISO 14443 Type B core of armsrc/iso14443b.c: the tag simulator's card   *)
(* state machine and the ISO 14443-4 layer-4 engine (iso14443b_apdu) with  *)
(* the session state it shares with the select flow and the dispatcher.    *)
(***************************************************************************)
EXTENDS Integers, Sequences, FiniteSets, TLC

VARIABLES
    \* ---- tag simulator (SimulateIso14443bTag) ----
    cardSTATE,        \* int cardSTATE
    respATQB,         \* uint8_t respATQB[14], after the PUPI adjustment
    receivedCmd,      \* the frame GetIso14443bCommandFromReader last delivered
    simPrevState,     \* cardSTATE when that frame was dispatched
    simTx,            \* bytes handed to TransmitFor14443b_AsTag for that frame
    simNewState,      \* cardSTATE when the dispatch of that frame ended
    cmdsReceived,     \* uint16_t cmdsReceived
    simRunning,       \* TRUE while the simulation loop runs
    \* ---- layer-4 session (file-scope statics) ----
    s_iso14b_pcb_blocknum,
    s_iso14b_fwt,
    s_iso14b_timeout,
    s_field_on,
    Uart_byteCntMax,  \* Uart.byteCntMax
    \* ---- iso14443b_apdu activation record ----
    pc,               \* "idle", "apdu_rx", "apdu_wtx_rx", "fault"
    rxdata,           \* the caller's receive buffer, buf of SendRawCommand14443B
                      \* (bytes written so far): the selects fill their descriptor
                      \* at its start, iso14443b_apdu and the RAW step receive into it
    len,              \* uint16_t len
    save_timeout,     \* save_iso14b_timeout_spp
    txFrame,          \* frame of the last CodeAndTransmit14443bAsReader
    txCount,          \* frames transmitted by the current call
    rxTimeout,        \* timeout argument of the last Get14443bAnswerFromTag
    rxFrame,          \* frame that call delivered (before any rewrite)
    wtxRounds,        \* iterations of the S(WTX) loop in the current call
    lastWtxm,         \* wtxm of the last S(WTX) iteration
    lastFwi,          \* s_iso14b_fwt read by that iteration
    status,           \* return value
    response_byte,    \* *response_byte
    responselen,      \* *responselen
    retData,          \* rxdata[0 .. responselen-1] at return
    entryBlocknum,    \* s_iso14b_pcb_blocknum when the call was made
    entryTimeout,     \* s_iso14b_timeout when the call was made
    apduMsg,          \* msg
    apduChaining,     \* send_chaining
    retPath,          \* which return statement was taken
    lastOp,           \* last operation that completed: "none", "apdu", "select", ...
    \* ---- iso14443b_select_card ----
    card,             \* the descriptor in buf: iso14b_card_select_t, or that of CTS, Picopass
    selRx,            \* the answers Get14443bAnswerFromTag gave to the last select
    selTx,            \* frames the last select function transmitted, in order
    \* ---- SendRawCommand14443B ----
    g_trigger,        \* bool g_trigger
    dpc,              \* the step of SendRawCommand14443B to run next, "idle" outside a call
    dFlags,           \* the bits of p->flags tested so far and found set
    dLog,             \* the steps the call has performed, in order
    dReplies,         \* the reply_ng calls of the call: step and status
    \* ---- reader-side encoder and the UART that receives from the reader ----
    Uart_state,       \* Uart.state
    Uart_shiftReg,    \* Uart.shiftReg
    Uart_bitCnt,      \* Uart.bitCnt
    Uart_byteCnt,     \* Uart.byteCnt
    Uart_posCnt,      \* Uart.posCnt
    Uart_output,      \* Uart.output, the bytes written so far
    uKind,            \* the stream on the line: "none", "frame", "unframed", "sof"
    uCmd,             \* the octets CodeIso14443bAsReader was given
    uBits,            \* the logical bits on the line, each sampled 4 times
    uFed,             \* samples handed to Handle14443bSampleFromReader so far
    uTrues,           \* calls of Handle14443bSampleFromReader that returned true
    uTrueAt,          \* the sample at which it last returned true, 0 if never
    uAwaited,         \* STATE_14B_AWAITING_START_BIT was entered on this stream
    \* ---- the demodulator of tag answers and Get14443bAnswerFromTag ----
    Demod_state,      \* Demod.state
    Demod_bitCount,   \* Demod.bitCount
    Demod_posCount,   \* Demod.posCount
    Demod_thisBit,    \* Demod.thisBit
    Demod_shiftReg,   \* Demod.shiftReg
    Demod_max_len,    \* Demod.max_len
    Demod_output,     \* Demod.output, the bytes written so far; those at index
                      \* max_len and beyond lie in the memory behind the buffer
    Demod_len,        \* Demod.len
    Demod_sumI,       \* Demod.sumI
    Demod_sumQ,       \* Demod.sumQ
    storeFault,       \* the store of a byte outside Demod.output stopped the run
    gPc,              \* Get14443bAnswerFromTag: "idle", "loop" or "done"
    gStream,          \* the I/Q samples the DMA delivers
    gPeriod,          \* how many of the last samples repeat for ever, 0: silence follows
    gPos,             \* the place in gStream of the sample read last
    gUpTo,            \* the local upTo, as an index into the DMA ring
    gFirstTick,       \* GetCountSspClk() when the first sample is read
    gDmaStart,        \* the local dma_start_time
    gTimeout,         \* the argument timeout
    gSamples,         \* the local samples
    gElapsed,         \* GetCountSspClkDelta(dma_start_time) as last read
    gEofTime,         \* *eof_time
    gRet,             \* the value returned, "none" before the return
    gTxClock,         \* GetCountSspClk() when TransmitFor14443b_AsReader reads it
    gStartTime,       \* *start_time of the command sent after the answer
    gMark,            \* the Demod at the end of the last period of a repeating line
    \* ---- single calls of the session's setters and of the CRC functions ----
    callOp,           \* the function called last, "none" before the first call
    callArg,          \* its argument
    callOut,          \* what check_crc said of the frame, FALSE without a frame
    \* ---- SniffIso14443b ----
    snPc,             \* SniffIso14443b: "idle", "run" in the loop ("damaged" once a
                      \* byte was stored behind dm_buf), "stopped" after it, "fault"
                      \* once the run has left the loop on the line
    snLine,           \* the line sniffed, by its name in SniffLineIds; "none" before
    snRead,           \* the words of the line the loop has read
    snFirstTick,      \* GetCountSspClk() when the first word is read
    snDmaStart,       \* the local dma_start_time
    snSamples,        \* the local samples
    snUpTo,           \* the local upTo, as an index into the DMA ring
    tag_is_active,    \* the local tag_is_active
    reader_is_active, \* the local reader_is_active
    expect_tag_answer, \* the local expect_tag_answer
    snTagFed,         \* the word read last was given to Handle14443bSamplesFromTag
    snReaderFed,      \* the word read last was given to Handle14443bSampleFromReader
    snTrace,          \* the calls of LogTrace, in order
    \* ---- the RF field, for the operations followed as a whole ----
    fieldOn,          \* the antenna drives the field: setup done, no switch_off() since
    fieldTx,          \* frames sent as reader: "none", "on", "off" if one left with the field off
    \* ---- the DMA ring shared with the PDC of the SSC ----
    PDC_RPR,          \* AT91C_BASE_PDC_SSC->PDC_RPR, as an index into dma->buf
    PDC_RCR,          \* AT91C_BASE_PDC_SSC->PDC_RCR
    PDC_RNCR,         \* AT91C_BASE_PDC_SSC->PDC_RNCR (PDC_RNPR is always dma->buf)
    SSC_ENDRX,        \* AT91C_BASE_SSC->SSC_SR & AT91C_SSC_ENDRX
    pdcWords,         \* words the PDC has written into the ring
    pdcOverrun,       \* a word arrived while both counters were 0 and was dropped
    rPc,              \* the receive loop: "poll", "take" and "take_q" before the two
                      \* reads of *upTo, at the wrap "sr", "rcr", "rncr" before the
                      \* reads of SSC_SR, PDC_RCR, PDC_RNCR; "stopped"
    rUpTo,            \* the local upTo, as an index into dma->buf
    rSamples,         \* the local samples
    rGot              \* which words of the PDC the loop read last: i in ci, q in cq,
                      \* 0 before the first

simVars  == <<cardSTATE, respATQB, receivedCmd, simPrevState, simTx, simNewState,
              cmdsReceived, simRunning>>
sessVars == <<s_iso14b_pcb_blocknum, s_iso14b_fwt, s_iso14b_timeout, s_field_on,
              Uart_byteCntMax>>
apduVars == <<pc, rxdata, len, save_timeout, txFrame, txCount, rxTimeout, rxFrame,
              wtxRounds, lastWtxm, lastFwi, status, response_byte, responselen,
              retData, entryBlocknum, entryTimeout, apduMsg, apduChaining, retPath,
              lastOp>>
selVars  == <<card, selRx, selTx>>
dispVars == <<g_trigger, dpc, dFlags, dLog, dReplies>>
\* what the simulator and the layer-4 session steps leave alone
uartVars == <<Uart_state, Uart_shiftReg, Uart_bitCnt, Uart_byteCnt, Uart_posCnt,
              Uart_output, uKind, uCmd, uBits, uFed, uTrues, uTrueAt, uAwaited>>
\* the sample-level receivers
demodVars == <<Demod_state, Demod_bitCount, Demod_posCount, Demod_thisBit,
               Demod_shiftReg, Demod_max_len, Demod_output, Demod_len, Demod_sumI,
               Demod_sumQ, storeFault>>
getVars == <<gPc, gStream, gPeriod, gPos, gUpTo, gFirstTick, gDmaStart, gTimeout,
             gSamples, gElapsed, gEofTime, gRet, gTxClock, gStartTime,
             gMark>>
callVars == <<callOp, callArg, callOut>>
sniffVars == <<snPc, snLine, snRead, snFirstTick, snDmaStart, snSamples, snUpTo,
               tag_is_active,
               reader_is_active, expect_tag_answer, snTagFed, snReaderFed,
               snTrace>>
fieldVars == <<fieldOn, fieldTx>>
ringVars == <<PDC_RPR, PDC_RCR, PDC_RNCR, SSC_ENDRX, pdcWords, pdcOverrun, rPc, rUpTo,
              rSamples, rGot>>
sampleVars == <<uartVars, demodVars, getVars, callVars, sniffVars, fieldVars, ringVars>>
restVars == <<dispVars, sampleVars>>
vars     == <<simVars, sessVars, apduVars, selVars, restVars>>

-----------------------------------------------------------------------------
(* Bounds of the model.                                                    *)

\* frames the simulator handles in one run
MaxCmds == 4
\* S(WTX) requests a tag may chain inside one iso14443b_apdu call
MaxWtx == 2

-----------------------------------------------------------------------------
(* C integer operators.                                                    *)

\* one bit, of weight w, of a & b and of a ^ b
AndBit(a, b, w) == ((a \div w) % 2) * ((b \div w) % 2) * w

XorBit(a, b, w) == (((a \div w) + (b \div w)) % 2) * w

\* a & b on uint8_t operands
And(a, b) ==
    AndBit(a, b, 1) + AndBit(a, b, 2) + AndBit(a, b, 4) + AndBit(a, b, 8)
    + AndBit(a, b, 16) + AndBit(a, b, 32) + AndBit(a, b, 64) + AndBit(a, b, 128)

\* a ^ b on operands of at most 16 bits
Xor(a, b) ==
    XorBit(a, b, 1) + XorBit(a, b, 2) + XorBit(a, b, 4) + XorBit(a, b, 8)
    + XorBit(a, b, 16) + XorBit(a, b, 32) + XorBit(a, b, 64) + XorBit(a, b, 128)
    + XorBit(a, b, 256) + XorBit(a, b, 512) + XorBit(a, b, 1024) + XorBit(a, b, 2048)
    + XorBit(a, b, 4096) + XorBit(a, b, 8192) + XorBit(a, b, 16384) + XorBit(a, b, 32768)

\* a | b on uint8_t operands
Or(a, b) == And(a, b) + Xor(a, b)

RECURSIVE Pow2(_)
Pow2(n) == IF n = 0 THEN 1 ELSE 2 * Pow2(n - 1)

\* buf[i] of a zero-initialised C array of which Len(buf) bytes were written
At(buf, i) == IF i + 1 <= Len(buf) THEN buf[i + 1] ELSE 0

\* buf with buf[i] = b (0-based), growing the written part when needed
RECURSIVE Pad(_, _)
Pad(buf, n) == IF Len(buf) >= n THEN buf ELSE Pad(Append(buf, 0), n)

Store(buf, i, b) == [Pad(buf, i + 1) EXCEPT ![i + 1] = b]

Take(buf, n) == [k \in 1..n |-> At(buf, k - 1)]

-----------------------------------------------------------------------------
(* CRC-B (crc16.c is outside this file; from the CRC-B section: polynomial *)
(* x^16+x^12+x^5+1 reflected, init 0xFFFF, complemented, low byte first).  *)

\* x with the bit of weight w inverted
Flip(x, w) == IF (x \div w) % 2 = 1 THEN x - w ELSE x + w

\* one shift of the reflected register: crc >> 1, xor 0x8408 when a 1 left it
CrcRound(crc) ==
    IF crc % 2 = 1 THEN Flip(Flip(Flip(crc \div 2, 32768), 1024), 8) ELSE crc \div 2

CrcByte(crc, b) ==
    CrcRound(CrcRound(CrcRound(CrcRound(
    CrcRound(CrcRound(CrcRound(CrcRound(Xor(crc, b)))))))))

\* the CRC register after bytes buf[i .. n-1]; the test on crc makes the
\* register a value at every byte
RECURSIVE CrcFold(_, _, _, _)
CrcFold(crc, buf, i, n) ==
    IF crc < 0 \/ i >= n THEN crc
    ELSE CrcFold(CrcByte(crc, At(buf, i)), buf, i + 1, n)

Crc14B(buf, n) == 65535 - CrcFold(65535, buf, 0, n)

\* mutant of AddCrc14B: the high byte of the CRC first
AddCrc14BHighFirst(buf, n) ==
    LET c == Crc14B(buf, n)
    IN  Store(Store(buf, n, c \div 256), n + 1, c % 256)

\* AddCrc14B(buf, n): writes buf[n], buf[n+1]
AddCrc14B(buf, n) ==
    LET c == Crc14B(buf, n)
    IN  Store(Store(buf, n, c % 256), n + 1, c \div 256)

\* check_crc(CRC_14443_B, buf, n)
CheckCrc14B(buf, n) ==
    /\ n >= 3
    /\ At(buf, n - 2) = Crc14B(buf, n - 2) % 256
    /\ At(buf, n - 1) = Crc14B(buf, n - 2) \div 256

-----------------------------------------------------------------------------
(* Tag simulator.                                                          *)

ISO14443B_REQB   == 5
ISO14443B_ATTRIB == 29
ISO14443B_HALT   == 80

SIM_POWER_OFF == "SIM_POWER_OFF"
SIM_IDLE      == "SIM_IDLE"
SIM_READY     == "SIM_READY"
SIM_ACTIVE    == "SIM_ACTIVE"
SIM_HALT      == "SIM_HALT"

SimStates == {SIM_POWER_OFF, SIM_IDLE, SIM_READY, SIM_ACTIVE, SIM_HALT}

defaultATQB == <<80, 130, 13, 225, 116, 32, 56, 25, 34, 0, 33, 133, 94, 215>>

respOK == <<0, 120, 240>>

\* respATQB after "PUPI/UID supplied from user. Adjust ATQB response"
MakeATQB(pupi) ==
    IF pupi # <<0, 0, 0, 0>>
    THEN AddCrc14B(<<80>> \o pupi \o SubSeq(defaultATQB, 6, 14), 12)
    ELSE defaultATQB

Pupis == {<<0, 0, 0, 0>>, <<1, 2, 3, 4>>}

\* the four frame tests of the dispatch chain, in the order of the code
IsWUPB(cmd)   == Len(cmd) = 5 /\ At(cmd, 0) = ISO14443B_REQB /\ And(At(cmd, 2), 8) # 0
IsREQB(cmd)   == Len(cmd) = 5 /\ At(cmd, 0) = ISO14443B_REQB /\ And(At(cmd, 2), 8) = 0
IsHLTB(cmd)   == Len(cmd) = 7 /\ At(cmd, 0) = ISO14443B_HALT
IsATTRIB(cmd) == Len(cmd) = 11 /\ At(cmd, 0) = ISO14443B_ATTRIB

\* the switch under "WUPB"
SimOnWUPBHaltDeaf(st, atqb) ==
    IF st \in {SIM_IDLE, SIM_READY}
    THEN [tx |-> atqb, next |-> SIM_READY]
    ELSE IF st = SIM_HALT THEN [tx |-> <<>>, next |-> st]
    ELSE [tx |-> atqb, next |-> st]

SimOnWUPB(st, atqb) ==
    IF st \in {SIM_IDLE, SIM_READY, SIM_HALT}
    THEN [tx |-> atqb, next |-> SIM_READY]
    ELSE [tx |-> atqb, next |-> st]

\* the switch under "REQB"
SimOnREQB(st, atqb) ==
    IF st \in {SIM_IDLE, SIM_READY} THEN [tx |-> atqb, next |-> SIM_READY]
    ELSE IF st = SIM_ACTIVE THEN [tx |-> atqb, next |-> st]
    ELSE [tx |-> <<>>, next |-> st]

\* the switch under "HLTB"
SimOnHLTB(st) ==
    IF st = SIM_READY THEN [tx |-> respOK, next |-> SIM_HALT]
    ELSE IF st \in {SIM_IDLE, SIM_ACTIVE} THEN [tx |-> respOK, next |-> st]
    ELSE [tx |-> <<>>, next |-> st]

\* the switch under "ATTRIB"
SimOnATTRIBFromHalt(st) ==
    IF st \in {SIM_READY, SIM_HALT} THEN [tx |-> respOK, next |-> SIM_ACTIVE]
    ELSE IF st \in {SIM_IDLE, SIM_ACTIVE} THEN [tx |-> respOK, next |-> st]
    ELSE [tx |-> <<>>, next |-> st]

SimOnATTRIB(st) ==
    IF st = SIM_READY THEN [tx |-> respOK, next |-> SIM_ACTIVE]
    ELSE IF st \in {SIM_IDLE, SIM_ACTIVE} THEN [tx |-> respOK, next |-> st]
    ELSE [tx |-> <<>>, next |-> st]

\* the if / else-if chain on the received frame
SimDispatch(st, cmd, atqb) ==
    IF IsWUPB(cmd) THEN SimOnWUPB(st, atqb)
    ELSE IF IsREQB(cmd) THEN SimOnREQB(st, atqb)
    ELSE IF IsHLTB(cmd) THEN SimOnHLTB(st)
    ELSE IF IsATTRIB(cmd) THEN SimOnATTRIB(st)
    ELSE [tx |-> <<>>, next |-> st]

\* frames the reader-side UART can deliver to the simulator
cmdWUPB   == <<5, 0, 8, 57, 115>>
cmdREQB   == <<5, 0, 0, 113, 255>>
cmdHLTB   == AddCrc14B(<<80, 130, 13, 225, 116>>, 5)
cmdATTRIB == AddCrc14B(<<29, 130, 13, 225, 116, 0, 8, 1, 0>>, 9)

\* the same frame with its last CRC byte damaged
BadCrc(f) == [f EXCEPT ![Len(f)] = (f[Len(f)] + 1) % 256]

SimFrames ==
    {cmdWUPB, cmdREQB, cmdHLTB, cmdATTRIB,
     BadCrc(cmdWUPB), BadCrc(cmdREQB), BadCrc(cmdHLTB), BadCrc(cmdATTRIB),
     AddCrc14B(<<6, 0>>, 2), <<5, 0, 8>>}

\* the simulator is not running
SimOff ==
    /\ cardSTATE = SIM_POWER_OFF
    /\ respATQB = defaultATQB
    /\ receivedCmd = <<>>
    /\ simPrevState = SIM_POWER_OFF
    /\ simTx = <<>>
    /\ simNewState = SIM_POWER_OFF
    /\ cmdsReceived = 0
    /\ simRunning = FALSE

\* SimulateIso14443bTag(pupi) up to its simulation loop
SimInit ==
    /\ cardSTATE = SIM_POWER_OFF
    /\ respATQB \in {MakeATQB(p) : p \in Pupis}
    /\ receivedCmd = <<>>
    /\ simPrevState = SIM_POWER_OFF
    /\ simTx = <<>>
    /\ simNewState = SIM_POWER_OFF
    /\ cmdsReceived = 0
    /\ simRunning = TRUE

MAX_FRAME_SIZE == 256

\* one pass of the simulation loop without field: "cardSTATE = SIM_POWER_OFF; continue"
SimNoField ==
    /\ simRunning
    /\ cardSTATE' = SIM_POWER_OFF
    /\ UNCHANGED <<respATQB, receivedCmd, simPrevState, simTx, simNewState,
                   cmdsReceived, simRunning, Uart_byteCntMax>>

\* one pass with field: power detection, a frame from the reader, the dispatch
SimFrame(cmd) ==
    /\ simRunning
    /\ cmdsReceived < MaxCmds
    /\ LET st == IF cardSTATE = SIM_POWER_OFF THEN SIM_IDLE ELSE cardSTATE
           r  == SimDispatch(st, cmd, respATQB)
       IN  /\ simPrevState' = st
           /\ receivedCmd' = cmd
           /\ simTx' = r.tx
           /\ cardSTATE' = r.next
           /\ simNewState' = r.next
    /\ cmdsReceived' = cmdsReceived + 1
    /\ Uart_byteCntMax' = MAX_FRAME_SIZE
    /\ UNCHANGED <<respATQB, simRunning>>

\* the loop ends: BUTTON_PRESS() or data_available() at its top, or, after the
\* power detection of a pass with field, GetIso14443bCommandFromReader
\* returning false; then switch_off()
SimStop ==
    /\ simRunning
    /\ simRunning' = FALSE
    /\ \/ UNCHANGED <<cardSTATE, Uart_byteCntMax>>
       \/ /\ cardSTATE' = IF cardSTATE = SIM_POWER_OFF THEN SIM_IDLE ELSE cardSTATE
          /\ Uart_byteCntMax' = MAX_FRAME_SIZE
    /\ UNCHANGED <<respATQB, receivedCmd, simPrevState, simTx, simNewState,
                   cmdsReceived>>

-----------------------------------------------------------------------------
(* Session timing: iso14b_set_timeout, iso14b_set_fwt,                     *)
(* iso14b_set_maxframesize.                                                *)

MAX_14B_TIMEOUT == 16777120

\* HF14_ETU_TO_SSP(x) is the uint32_t product x * 32 (iso14b.h is outside this
\* file; 1 ETU = 32 SSP_CLK): only the low 27 bits of x reach the result
Low27(x) == x % 134217728

\* the value iso14b_set_timeout(timeout_etu) stores in s_iso14b_timeout;
\* "ssp > MAX_14B_TIMEOUT" is decided on ssp / 32, exact because
\* MAX_14B_TIMEOUT is a multiple of 32
SetTimeout(timeout_etu) ==
    IF Low27(timeout_etu) > MAX_14B_TIMEOUT \div 32
    THEN MAX_14B_TIMEOUT
    ELSE Low27(timeout_etu) * 32

\* the low 27 bits of (uint32_t)(32 << n) for a count n < 32
ShlLow(n) == IF n <= 21 THEN 32 * Pow2(n) ELSE 0

\* "32 << n" on an int with a run-time count n, as the low 27 bits of the
\* argument iso14b_set_timeout receives. For n >= 32 the shift is undefined
\* behaviour and the builds differ: the result is 0, or the count is taken
\* modulo 32 (x86), or modulo 256 with counts of 32 and more giving 0 (ARM
\* LSL by register)
Shl32(n) ==
    IF n <= 31 THEN {ShlLow(n)}
    ELSE {0, ShlLow(n % 32), IF n % 256 < 32 THEN ShlLow(n % 256) ELSE 0}

\* the timeout iso14b_set_fwt(fwt) derives, fwt <= 14
FwtTimeout(fwt) == SetTimeout(32 * Pow2(fwt))

\* the size iso14b_set_maxframesize(size) stores in Uart.byteCntMax
SetMaxFrameSize(size) == IF size > 256 THEN MAX_FRAME_SIZE ELSE size

SessInit ==
    /\ s_iso14b_pcb_blocknum = 0
    /\ s_iso14b_fwt = 9
    /\ s_iso14b_timeout = MAX_14B_TIMEOUT
    /\ s_field_on = FALSE
    /\ Uart_byteCntMax = 0

\* the statics once GetIso14443bCommandFromReader has run Uart14bInit and no
\* reader operation has been asked for
UartListening ==
    /\ s_iso14b_pcb_blocknum = 0
    /\ s_iso14b_fwt = 9
    /\ s_iso14b_timeout = MAX_14B_TIMEOUT
    /\ s_field_on = FALSE
    /\ Uart_byteCntMax = MAX_FRAME_SIZE

-----------------------------------------------------------------------------
(* Get14443bAnswerFromTag as seen by its callers: a status and, on         *)
(* PM3_SUCCESS, the Demod.len bytes the demodulator stored.                *)

PM3_SUCCESS       == "PM3_SUCCESS"
PM3_ETIMEOUT      == "PM3_ETIMEOUT"
PM3_EOVFLOW       == "PM3_EOVFLOW"
PM3_ECARDEXCHANGE == "PM3_ECARDEXCHANGE"
PM3_ERFTRANS == "PM3_ERFTRANS"
PM3_ECRC          == "PM3_ECRC"
PM3_ELENGTH       == "PM3_ELENGTH"

Ok(frame) == [st |-> PM3_SUCCESS, data |-> frame]
Fail(code) == [st |-> code, data |-> <<>>]

WithCrc(f) == AddCrc14B(f, Len(f))

\* answers of a tag to a layer-4 block: I-blocks, R(ACK), R(NAK), S(WTX),
\* frames with a damaged CRC, frames too short to hold one, no frame
ApduAnswers ==
    {Ok(WithCrc(<<2, 144, 0>>)), Ok(WithCrc(<<3, 144, 0>>)),
     Ok(WithCrc(<<0>>)),
     Ok(WithCrc(<<130>>)), Ok(WithCrc(<<131>>)),
     Ok(WithCrc(<<178>>)),
     Ok(WithCrc(<<242, 5>>)), Ok(WithCrc(<<242, 3>>)),
     Ok(BadCrc(WithCrc(<<2, 144, 0>>))),
     Ok(<<0>>), Ok(<<242>>), Ok(<<242, 3>>),
     Ok(<<>>),
     Fail(PM3_ETIMEOUT)}

\* the buffer after the demodulator stored frame over it from index 0
Received(buf, frame) ==
    [k \in 1..(IF Len(buf) > Len(frame) THEN Len(buf) ELSE Len(frame)) |->
        IF k <= Len(frame) THEN frame[k] ELSE buf[k]]

-----------------------------------------------------------------------------
(* iso14443b_apdu.                                                         *)

\* PCB of the block to send
ApduPcb(msg, chaining, blocknum) ==
    IF Len(msg) > 0
    THEN Or(Or(2, IF chaining THEN 16 ELSE 0), blocknum)
    ELSE Or(162, blocknum)

\* real_cmd with its CRC
ApduFrame(msg, chaining, blocknum) ==
    AddCrc14B(<<ApduPcb(msg, chaining, blocknum)>> \o msg, Len(msg) + 1)

\* the loop condition "len && ((data_bytes[0] & 0xF2) == 0xF2)"
IsSWtx(buf, n) == n > 0 /\ And(At(buf, 0), 242) = 242

\* "2 high bits mandatory set to 0b": wtxm
Wtxm(buf) == And(At(buf, 1), 63)

\* fwt_temp
FwtTemp(fwi, wtxm) == fwi * wtxm

\* the block-number rule, with the first byte b0 of a response of n bytes
ToggleRuleNoLen(b0, n, blocknum) ==
    /\ (And(b0, 192) = 0 \/ And(b0, 208) = 128)
    /\ And(b0, 1) = blocknum

ToggleRuleAlways(b0, n, blocknum) ==
    /\ n >= 3
    /\ (And(b0, 192) = 0 \/ And(b0, 208) = 128)

ToggleRuleDiffers(b0, n, blocknum) ==
    /\ n >= 3
    /\ (And(b0, 192) = 0 \/ And(b0, 208) = 128)
    /\ And(b0, 1) # blocknum

ToggleRule(b0, n, blocknum) ==
    /\ n >= 3
    /\ (And(b0, 192) = 0 \/ And(b0, 208) = 128)
    /\ And(b0, 1) = blocknum

\* "cut frame byte"
CutFrameByte(buf, n) ==
    [k \in 1..Len(buf) |-> IF k <= n - 1 THEN At(buf, k) ELSE buf[k]]

\* the length reported after "cut frame byte"
CutLenNoCrc(n) == IF n >= 3 THEN n - 3 ELSE IF n > 0 THEN n - 1 ELSE 0

CutLen(n) == IF n > 0 THEN n - 1 ELSE 0

ApduInit ==
    /\ pc = "idle"
    /\ rxdata = <<>>
    /\ len = 0
    /\ save_timeout = 0
    /\ txFrame = <<>>
    /\ txCount = 0
    /\ rxTimeout = 0
    /\ rxFrame = <<>>
    /\ wtxRounds = 0
    /\ lastWtxm = 0
    /\ lastFwi = 0
    /\ status = PM3_SUCCESS
    /\ response_byte = 0
    /\ responselen = 0
    /\ retData = <<>>
    /\ entryBlocknum = 0
    /\ entryTimeout = 0
    /\ apduMsg = <<>>
    /\ apduChaining = FALSE
    /\ retPath = "none"
    /\ lastOp = "none"

\* the locals and out-parameters of a call that is over, as its caller
\* initialises them for the next one
ApduLocalsReset ==
    /\ pc' = "idle"
    /\ len' = 0
    /\ save_timeout' = 0
    /\ rxTimeout' = 0
    /\ rxFrame' = <<>>
    /\ wtxRounds' = 0
    /\ lastWtxm' = 0
    /\ lastFwi' = 0
    /\ response_byte' = 0
    /\ responselen' = 0
    /\ retData' = <<>>
    /\ entryBlocknum' = 0
    /\ entryTimeout' = 0
    /\ apduMsg' = <<>>
    /\ apduChaining' = FALSE
    /\ retPath' = "none"

\* iso14b_card_select_t, zeroed; uid and atqb hold the bytes written
ZeroCard == [uid |-> <<>>, uidlen |-> 0, atqb |-> <<>>, chipid |-> 0, cid |-> 0]

\* the bytes of an iso14b_card_select_t: uid[10], uidlen, atqb[7], chipid, cid
CardBytes(c) == Take(c.uid, 10) \o <<c.uidlen>> \o Take(c.atqb, 7) \o <<c.chipid, c.cid>>

\* the dispatcher's zeroed card descriptor
SelReset ==
    /\ card' = ZeroCard
    /\ selRx' = <<>>
    /\ selTx' = <<>>

\* a return statement of iso14443b_apdu
ApduReturn(st, path) ==
    /\ status' = st
    /\ retPath' = path
    /\ pc' = "idle"
    /\ lastOp' = "apdu"

\* one pass of the S(WTX) loop up to its Get14443bAnswerFromTag, on a buffer buf
\* holding n received bytes, with s_iso14b_timeout = cur on entry
WtxEcho(buf, n, cur) ==
    LET wtxm == Wtxm(buf)
        b1   == Store(buf, 1, wtxm)
    IN  /\ save_timeout' = cur
        /\ lastWtxm' = wtxm
        /\ lastFwi' = s_iso14b_fwt
        /\ wtxRounds' = wtxRounds + 1
        /\ \E etu \in Shl32(FwtTemp(s_iso14b_fwt, wtxm)) :
               s_iso14b_timeout' = SetTimeout(etu)
        /\ len' = n
        /\ UNCHANGED <<s_iso14b_pcb_blocknum, status, response_byte, responselen,
                       retData, retPath, lastOp>>
        /\ IF n < 2
           THEN \* AddCrc14B(data_bytes, (size_t)-1): the CRC loop runs off the buffer
                /\ pc' = "fault"
                /\ rxdata' = b1
                /\ UNCHANGED <<txFrame, txCount, rxTimeout>>
           ELSE LET b2 == AddCrc14B(b1, n - 2)
                IN  /\ rxdata' = b2
                    /\ txFrame' = Take(b2, n)
                    /\ txCount' = txCount + 1
                    /\ rxTimeout' = s_iso14b_timeout'
                    /\ pc' = "apdu_wtx_rx"

\* the code after the S(WTX) loop, on a buffer buf holding n received bytes
ApduFinish(buf, n, cur) ==
    LET b0  == At(buf, 0)
        tgl == ToggleRule(b0, n, s_iso14b_pcb_blocknum)
    IN  /\ s_iso14b_timeout' = cur
        /\ s_iso14b_pcb_blocknum' =
               IF tgl THEN Xor(s_iso14b_pcb_blocknum, 1) ELSE s_iso14b_pcb_blocknum
        /\ response_byte' = b0
        /\ UNCHANGED <<save_timeout, lastWtxm, lastFwi, wtxRounds, txFrame, txCount,
                       rxTimeout>>
        /\ IF n >= 3 /\ ~CheckCrc14B(buf, n)
           THEN /\ ApduReturn(PM3_ECRC, "crc")
                /\ rxdata' = buf
                /\ len' = n
                /\ UNCHANGED <<responselen, retData>>
           ELSE /\ ApduReturn(PM3_SUCCESS, "ok")
                /\ rxdata' = CutFrameByte(buf, n)
                /\ len' = CutLen(n)
                /\ responselen' = CutLen(n)
                /\ retData' = Take(CutFrameByte(buf, n), CutLen(n))

\* iso14443b_apdu up to its first Get14443bAnswerFromTag, rxdata pointing to
\* the buffer buf; the caller passes zeroed response_byte / responselen
ApduCallOn(msg, chaining, buf) ==
    /\ pc = "idle"
    /\ pc' = "apdu_rx"
    /\ apduMsg' = msg
    /\ apduChaining' = chaining
    /\ entryBlocknum' = s_iso14b_pcb_blocknum
    /\ entryTimeout' = s_iso14b_timeout
    /\ txFrame' = ApduFrame(msg, chaining, s_iso14b_pcb_blocknum)
    /\ txCount' = 1
    /\ rxTimeout' = s_iso14b_timeout
    /\ rxdata' = buf
    /\ rxFrame' = <<>>
    /\ len' = 0
    /\ wtxRounds' = 0
    /\ response_byte' = 0
    /\ responselen' = 0
    /\ retData' = <<>>
    /\ retPath' = "none"
    /\ save_timeout' = 0
    /\ lastWtxm' = 0
    /\ lastFwi' = 0
    /\ UNCHANGED <<status, lastOp>>
    /\ UNCHANGED <<sessVars, simVars>>

\* SendRawCommand14443B with ISO14B_APDU alone: buf, and the descriptor in
\* it, zeroed; with s_field_on false the reply PM3_ERFTRANS and no frame, else
\* iso14443b_apdu on buf
ApduCall(msg, chaining) ==
    /\ SelReset
    /\ IF s_field_on = FALSE
       THEN /\ pc = "idle"
            /\ status' = PM3_ERFTRANS
            /\ lastOp' = "field_off"
            /\ ApduLocalsReset
            /\ rxdata' = <<>>
            /\ txFrame' = <<>>
            /\ txCount' = 0
            /\ UNCHANGED <<sessVars, simVars>>
       ELSE ApduCallOn(msg, chaining, <<>>)

\* the first Get14443bAnswerFromTag returns o, down to the next receive or return
ApduRx(o) ==
    /\ pc = "apdu_rx"
    /\ IsSWtx(o.data, Len(o.data)) => wtxRounds < MaxWtx
    /\ rxFrame' = o.data
    /\ UNCHANGED <<entryBlocknum, entryTimeout, apduMsg, apduChaining>>
    /\ UNCHANGED <<s_iso14b_fwt, s_field_on, Uart_byteCntMax, simVars, selVars>>
    /\ IF o.st # PM3_SUCCESS
       THEN /\ ApduReturn(o.st, "rx_fail")
            /\ UNCHANGED <<rxdata, len, save_timeout, txFrame, txCount, rxTimeout,
                           wtxRounds, lastWtxm, lastFwi, response_byte, responselen,
                           retData, s_iso14b_pcb_blocknum, s_iso14b_timeout>>
       ELSE LET buf == Received(rxdata, o.data)
                n   == Len(o.data)
            IN  IF n = 0
                THEN /\ ApduReturn(PM3_SUCCESS, "empty")
                     /\ UNCHANGED <<rxdata, len, save_timeout, txFrame, txCount,
                                    rxTimeout, wtxRounds, lastWtxm, lastFwi,
                                    response_byte, responselen, retData,
                                    s_iso14b_pcb_blocknum, s_iso14b_timeout>>
                ELSE IF IsSWtx(buf, n)
                     THEN WtxEcho(buf, n, s_iso14b_timeout)
                     ELSE ApduFinish(buf, n, s_iso14b_timeout)

\* the Get14443bAnswerFromTag inside the S(WTX) loop returns o
ApduWtxRx(o) ==
    /\ pc = "apdu_wtx_rx"
    /\ IsSWtx(o.data, Len(o.data)) => wtxRounds < MaxWtx
    /\ rxFrame' = o.data
    /\ UNCHANGED <<entryBlocknum, entryTimeout, apduMsg, apduChaining>>
    /\ UNCHANGED <<s_iso14b_fwt, s_field_on, Uart_byteCntMax, simVars, selVars>>
    /\ IF o.st # PM3_SUCCESS
       THEN /\ ApduReturn(PM3_ECARDEXCHANGE, "wtx_rx_fail")
            /\ UNCHANGED <<rxdata, len, save_timeout, txFrame, txCount, rxTimeout,
                           wtxRounds, lastWtxm, lastFwi, response_byte, responselen,
                           retData, s_iso14b_pcb_blocknum, s_iso14b_timeout>>
       ELSE LET buf == Received(rxdata, o.data)
                n   == Len(o.data)
            IN  IF IsSWtx(buf, n)
                THEN WtxEcho(buf, n, save_timeout)
                ELSE ApduFinish(buf, n, save_timeout)

-----------------------------------------------------------------------------
(* iso14443b_select_card, iso14443b_setup and the dispatcher's session     *)
(* steps.                                                                  *)

wupb == <<5, 0, 0, 113, 255>>

\* the ATTRIB command built from the ATQB in r_pupid
AttribFrame(r_pupid) ==
    AddCrc14B(<<ISO14443B_ATTRIB, At(r_pupid, 1), At(r_pupid, 2), At(r_pupid, 3),
                At(r_pupid, 4), 0, 8, And(At(r_pupid, 10), 15), 0>>, 9)

\* the ISO table on atqb[5] >> 4
MaxFrameOfLinear(code) == 16 * code + 16

MaxFrameOf(code) ==
    IF code < 5 THEN 8 * code + 16
    ELSE IF code = 5 THEN 64
    ELSE IF code = 6 THEN 96
    ELSE IF code = 7 THEN 128
    ELSE IF code = 8 THEN 256
    ELSE 257

\* answers of a tag to the wake-up command
AtqbAnswers ==
    {Ok(defaultATQB),
     Ok(WithCrc(<<80, 1, 2, 3, 4, 32, 56, 25, 34, 0, 145, 37>>)),
     Ok(BadCrc(defaultATQB)),
     Ok(WithCrc(<<80, 1, 2, 3, 4>>)),
     Fail(PM3_ETIMEOUT)}

\* answers of a tag to ATTRIB
AttribAnswers ==
    {Ok(respOK), Ok(BadCrc(respOK)), Ok(<<0, 120>>), Fail(PM3_ETIMEOUT)}

SelInit ==
    /\ card = ZeroCard
    /\ selRx = <<>>
    /\ selTx = <<>>

\* a return statement of iso14443b_select_card
SelectReturn(st) ==
    /\ status' = st
    /\ lastOp' = "select"
    /\ ApduLocalsReset

SelectFailsResetting(st) ==
    /\ SelectReturn(st)
    /\ s_iso14b_pcb_blocknum' = 0
    /\ UNCHANGED <<s_iso14b_fwt, s_iso14b_timeout, s_field_on, Uart_byteCntMax>>

SelectFails(st) ==
    /\ SelectReturn(st)
    /\ UNCHANGED <<sessVars>>

\* iso14443b_select_card(card) as the ISO14B_SELECT_STD step of
\* SendRawCommand14443B calls it, card being the start of the buf the call has
\* just zeroed; the tag answers o1 to the wake-up command and o2 to ATTRIB
SelectCard(o1, o2) ==
    /\ pc = "idle"
    /\ UNCHANGED simVars
    /\ IF o1.st # PM3_SUCCESS
       THEN /\ SelectFails(PM3_ECARDEXCHANGE)
            /\ txFrame' = wupb /\ txCount' = 1
            /\ selTx' = <<wupb>>
            /\ selRx' = <<>>
            /\ card' = ZeroCard
       ELSE IF Len(o1.data) < 14
       THEN /\ SelectFails(PM3_ELENGTH)
            /\ txFrame' = wupb /\ txCount' = 1
            /\ selTx' = <<wupb>>
            /\ selRx' = <<o1.data>>
            /\ card' = ZeroCard
       ELSE IF ~CheckCrc14B(o1.data, Len(o1.data))
       THEN /\ SelectFails(PM3_ECRC)
            /\ txFrame' = wupb /\ txCount' = 1
            /\ selTx' = <<wupb>>
            /\ selRx' = <<o1.data>>
            /\ card' = ZeroCard
       ELSE LET r_pupid == o1.data
                uid     == SubSeq(r_pupid, 2, 5)
                atqb    == SubSeq(r_pupid, 6, 12)
            IN  /\ txFrame' = AttribFrame(r_pupid) /\ txCount' = 2
                /\ selTx' = <<wupb, AttribFrame(r_pupid)>>
                /\ IF o2.st # PM3_SUCCESS
                   THEN /\ SelectFails(PM3_ECARDEXCHANGE)
                        /\ selRx' = <<o1.data>>
                        /\ card' = [ZeroCard EXCEPT !.uid = uid, !.uidlen = 4,
                                                !.atqb = atqb]
                   ELSE IF Len(o2.data) < 3
                   THEN /\ SelectFails(PM3_ELENGTH)
                        /\ selRx' = <<o1.data, o2.data>>
                        /\ card' = [ZeroCard EXCEPT !.uid = uid, !.uidlen = 4,
                                                !.atqb = atqb]
                   ELSE IF ~CheckCrc14B(o2.data, Len(o2.data))
                   THEN /\ SelectFails(PM3_ECRC)
                        /\ selRx' = <<o1.data, o2.data>>
                        /\ card' = [ZeroCard EXCEPT !.uid = uid, !.uidlen = 4,
                                                !.atqb = atqb]
                   ELSE LET fwt == At(atqb, 6) \div 16
                        IN  /\ SelectReturn(PM3_SUCCESS)
                            /\ selRx' = <<o1.data, o2.data>>
                            /\ card' = [ZeroCard EXCEPT !.uid = uid, !.uidlen = 4,
                                                    !.atqb = atqb,
                                                    !.cid = At(o2.data, 0)]
                            /\ Uart_byteCntMax' =
                                   SetMaxFrameSize(MaxFrameOf(At(atqb, 5) \div 16))
                            /\ IF fwt < 15
                               THEN /\ s_iso14b_fwt' = fwt
                                    /\ s_iso14b_timeout' = FwtTimeout(fwt)
                               ELSE UNCHANGED <<s_iso14b_fwt, s_iso14b_timeout>>
                            /\ s_iso14b_pcb_blocknum' = 0
                            /\ UNCHANGED s_field_on
    /\ rxdata' = CardBytes(card')

\* iso14443b_setup()
Setup ==
    /\ pc = "idle"
    /\ s_iso14b_fwt' = 8
    /\ s_iso14b_timeout' = FwtTimeout(8)
    /\ s_field_on' = TRUE
    /\ Uart_byteCntMax' = MAX_FRAME_SIZE
    /\ lastOp' = "setup"
    /\ ApduLocalsReset
    /\ rxdata' = <<>>
    /\ SelReset
    /\ txFrame' = <<>> /\ txCount' = 0
    /\ status' = PM3_SUCCESS
    /\ UNCHANGED <<s_iso14b_pcb_blocknum, simVars>>

\* timeouts (in ETU) a host asks for with ISO14B_SET_TIMEOUT
TimeoutArgs == {128}

\* the dispatcher's ISO14B_SET_TIMEOUT step: iso14b_set_timeout(p->timeout)
SetTimeoutCmd(t) ==
    /\ pc = "idle"
    /\ s_iso14b_timeout' = SetTimeout(t)
    /\ lastOp' = "set_timeout"
    /\ ApduLocalsReset
    /\ rxdata' = <<>>
    /\ SelReset
    /\ txFrame' = <<>> /\ txCount' = 0
    /\ status' = PM3_SUCCESS
    /\ UNCHANGED <<s_iso14b_pcb_blocknum, s_iso14b_fwt, s_field_on, Uart_byteCntMax,
                   simVars>>

\* APDUs a host sends, with the chaining flag: the empty one makes
\* iso14443b_apdu send R(ACK)
ApduInputs ==
    {[msg |-> <<>>, chaining |-> FALSE],
     [msg |-> <<0, 164, 0, 0>>, chaining |-> FALSE],
     [msg |-> <<0, 164, 0, 0>>, chaining |-> TRUE]}

-----------------------------------------------------------------------------
(* The select functions for SR-X, Xerox, ASK CTS and Picopass cards, each   *)
(* as a function of the answers Get14443bAnswerFromTag gives it.           *)

PM3_EWRONGANSWER == "PM3_EWRONGANSWER"
PM3_ESOFT == "PM3_ESOFT"

\* what a select function leaves: its return value, the descriptor, the
\* frames CodeAndTransmit14443bAsReader sent, the frames received, the number
\* of answers asked for
Flow(st, c, sent, rx, asked) ==
    [ret |-> st, card |-> c, sent |-> sent, rx |-> rx, asked |-> asked]

\* init_srx
SrxInitiate == <<6, 0, 151, 91>>

\* select_srx once the chip-ID is in place and AddCrc14B(select_srx, 2) ran
SrxSelect(chipid) == AddCrc14B(<<14, chipid>>, 2)

\* the first three bytes of select_srx after GET_UID was written over it
SrxGetUid == <<11, 171, 78>>

\* iso14443b_select_srx_card(card), card pointing at c, the tag answering
\* a[1] to INITIATE, a[2] to SELECT and a[3] to GET_UID
SelectSrx(c, a) ==
    LET r_init   == Received(<<0, 0, 0>>, a[1].data)
        c1       == [c EXCEPT !.chipid = r_init[1]]
        r_select == Received(<<0, 0, 0>>, a[2].data)
        r_papid  == Received(<<0, 0, 0, 0, 0, 0, 0, 0, 0, 0>>, a[3].data)
        s1       == <<SrxInitiate>>
        s2       == <<SrxInitiate, SrxSelect(r_init[1])>>
        s3       == <<SrxInitiate, SrxSelect(r_init[1]), SrxGetUid>>
        x1       == <<a[1].data>>
        x2       == <<a[1].data, a[2].data>>
        x3       == <<a[1].data, a[2].data, a[3].data>>
    IN  IF a[1].st # PM3_SUCCESS THEN Flow(PM3_ECARDEXCHANGE, c, s1, <<>>, 1)
        ELSE IF a[2].st # PM3_SUCCESS THEN Flow(PM3_ECARDEXCHANGE, c1, s2, x1, 2)
        ELSE IF Len(a[2].data) # 3 THEN Flow(PM3_ELENGTH, c1, s2, x2, 2)
        ELSE IF ~CheckCrc14B(r_select, 3) THEN Flow(PM3_ECRC, c1, s2, x2, 2)
        ELSE IF r_init[1] # r_select[1] THEN Flow(PM3_EWRONGANSWER, c1, s2, x2, 2)
        ELSE IF a[3].st # PM3_SUCCESS THEN Flow(PM3_ECARDEXCHANGE, c1, s3, x2, 3)
        ELSE IF Len(a[3].data) # 10 THEN Flow(PM3_ELENGTH, c1, s3, x3, 3)
        ELSE IF ~CheckCrc14B(r_papid, 10) THEN Flow(PM3_ECRC, c1, s3, x3, 3)
        ELSE Flow(PM3_SUCCESS, [c1 EXCEPT !.uidlen = 8, !.uid = SubSeq(r_papid, 1, 8)],
                  s3, x3, 3)

\* iso14b_cts_card_select_t, zeroed; uid holds the bytes written
ZeroCts == [uid |-> <<>>, pc |-> 0, fc |-> 0]

\* cmdINIT, cmdMSBUID and cmdLSBUID with their CRC
CtsInit == <<16, 249, 224>>
CtsMsbUid == AddCrc14B(<<159, 255, 255>>, 3)
CtsLsbUid == AddCrc14B(<<196>>, 1)

\* iso14443b_select_cts_card(card), card pointing at c, the tag answering
\* a[1], a[2], a[3] into the one buffer r
SelectCts(c, a) ==
    LET r1 == Received(<<0, 0, 0, 0, 0, 0, 0, 0>>, a[1].data)
        r2 == Received(r1, a[2].data)
        r3 == Received(r2, a[3].data)
        c1 == [c EXCEPT !.pc = r1[1], !.fc = r1[2]]
        c2 == [c1 EXCEPT !.uid = <<r2[1], r2[2]>>]
        c3 == [c2 EXCEPT !.uid = <<r2[1], r2[2], r3[1], r3[2]>>]
        s1 == <<CtsInit>>
        s2 == <<CtsInit, CtsMsbUid>>
        s3 == <<CtsInit, CtsMsbUid, CtsLsbUid>>
        x1 == <<a[1].data>>
        x2 == <<a[1].data, a[2].data>>
        x3 == <<a[1].data, a[2].data, a[3].data>>
    IN  IF a[1].st # PM3_SUCCESS THEN Flow(PM3_ECARDEXCHANGE, c, s1, <<>>, 1)
        ELSE IF Len(a[1].data) # 4 THEN Flow(PM3_ELENGTH, c, s1, x1, 1)
        ELSE IF ~CheckCrc14B(r1, 4) THEN Flow(PM3_ECRC, c, s1, x1, 1)
        ELSE IF a[2].st # PM3_SUCCESS THEN Flow(PM3_ECARDEXCHANGE, c1, s2, x1, 2)
        ELSE IF Len(a[2].data) # 4 THEN Flow(PM3_ELENGTH, c1, s2, x2, 2)
        ELSE IF ~CheckCrc14B(r2, 4) THEN Flow(PM3_ECRC, c1, s2, x2, 2)
        ELSE IF a[3].st # PM3_SUCCESS THEN Flow(PM3_ECARDEXCHANGE, c2, s3, x2, 3)
        ELSE IF Len(a[3].data) # 4 THEN Flow(PM3_ELENGTH, c2, s3, x3, 3)
        ELSE IF ~CheckCrc14B(r3, 4) THEN Flow(PM3_ECRC, c2, s3, x3, 3)
        ELSE Flow(PM3_SUCCESS, c3, s3, x3, 3)

\* picopass_hdr_t, zeroed; each field holds the bytes written
ZeroHdr == [csn |-> <<>>, conf |-> <<>>, epurse |-> <<>>, app_issuer_area |-> <<>>]

\* act_all, identify, select with the anti-collision CSN, read_conf, read_aia
\* for block 5 and for block 2, read_check_cc
PicoActAll == <<10>>
PicoIdentify == <<12>>
PicoSelect(csn) == <<129>> \o csn
PicoReadConf == <<12, 1, 250, 34>>
PicoReadAia == <<12, 5, 222, 100>>
PicoReadAiaBlock2 == <<12, 2, 97, 16>>
PicoReadCheckCc == <<136, 2>>

\* get_pagemap(hdr): the two CRYPT fuses of conf.fuses, the last byte of the
\* configuration block
GetPagemap(conf) == (At(conf, 7) \div 8) % 4

\* iso14443b_select_picopass_card(hdr), hdr pointing at h, the tag answering
\* a[1] to IDENTIFY, a[2] to SELECT, a[3] to the read of block 1, then a[4]
\* and a[5] to the reads that depend on the page map
SelectPicopass(h, a) ==
    LET resp1 == Received(<<>>, a[1].data)
        resp2 == Received(resp1, a[2].data)
        resp3 == Received(resp2, a[3].data)
        resp4 == Received(resp3, a[4].data)
        resp5 == Received(resp4, a[5].data)
        h2    == [h EXCEPT !.csn = Take(resp2, 8)]
        h3    == [h2 EXCEPT !.conf = Take(resp3, 8)]
        h4    == [h3 EXCEPT !.app_issuer_area = Take(resp4, 8)]
        h5    == [h4 EXCEPT !.epurse = Take(resp5, 8)]
        h4n   == [h3 EXCEPT !.epurse = Take(resp4, 8)]
        s1    == <<PicoActAll, PicoIdentify>>
        s2    == Append(s1, PicoSelect(Take(resp1, 8)))
        s3    == Append(s2, PicoReadConf)
        s4    == Append(s3, PicoReadAia)
        s5    == Append(s4, PicoReadCheckCc)
        s4n   == Append(s3, PicoReadAiaBlock2)
        x(n)  == [i \in 1..n |-> a[i].data]
    IN  IF a[1].st # PM3_SUCCESS THEN Flow(PM3_ECARDEXCHANGE, h, s1, <<>>, 1)
        ELSE IF Len(a[1].data) # 10 THEN Flow(PM3_ELENGTH, h, s1, x(1), 1)
        ELSE IF a[2].st # PM3_SUCCESS THEN Flow(PM3_ECARDEXCHANGE, h, s2, x(1), 2)
        ELSE IF Len(a[2].data) # 10 THEN Flow(PM3_ELENGTH, h, s2, x(2), 2)
        ELSE IF a[3].st # PM3_SUCCESS THEN Flow(PM3_ECARDEXCHANGE, h2, s3, x(2), 3)
        ELSE IF Len(a[3].data) # 10 THEN Flow(PM3_ELENGTH, h2, s3, x(3), 3)
        ELSE IF GetPagemap(Take(resp3, 8)) # 1
        THEN IF a[4].st # PM3_SUCCESS THEN Flow(PM3_ECARDEXCHANGE, h3, s4, x(3), 4)
             ELSE IF Len(a[4].data) # 10 THEN Flow(PM3_ELENGTH, h3, s4, x(4), 4)
             ELSE IF a[5].st # PM3_SUCCESS THEN Flow(PM3_ECARDEXCHANGE, h4, s5, x(4), 5)
             ELSE IF Len(a[5].data) # 8 THEN Flow(PM3_ELENGTH, h4, s5, x(5), 5)
             ELSE Flow(PM3_SUCCESS, h5, s5, x(5), 5)
        ELSE IF a[4].st # PM3_SUCCESS THEN Flow(PM3_ECARDEXCHANGE, h3, s4n, x(3), 4)
             ELSE IF Len(a[4].data) # 10 THEN Flow(PM3_ELENGTH, h3, s4n, x(4), 4)
             ELSE Flow(PM3_SUCCESS, h4n, s4n, x(4), 4)

\* x_wup1 and x_wup2
XrxWup1 == <<13, 55, 33, 146, 242>>
XrxWup2 == <<93, 55, 33, 113, 113>>

\* the unframed slot markers: nak and ack of a slot
XrxNak(slot) == <<161 + 2 * slot>>
XrxAck(slot) == <<177 + 2 * slot>>

\* the rounds of the anti-collision loop, uid_pos = 2 * r: no data may arrive
\* (x.data is the round in which the first poll delivers bytes, 32 if none);
\* the slots before x.pick[r + 1] show no subcarrier burst and are nak'ed,
\* that slot shows one and is ack'ed; x.pick[r + 1] = 4: no slot shows one
RECURSIVE XrxAnticollision(_, _, _)
XrxAnticollision(x, r, sent) ==
    IF r = 32 THEN [ret |-> PM3_SUCCESS, sent |-> sent]
    ELSE IF x.data = r THEN [ret |-> PM3_ECARDEXCHANGE, sent |-> sent]
    ELSE LET slot == x.pick[r + 1]
             naks == [i \in 1..(IF slot = 4 THEN 4 ELSE slot) |-> XrxNak(i - 1)]
         IN  IF slot = 4 THEN [ret |-> PM3_ESOFT, sent |-> sent \o naks]
             ELSE XrxAnticollision(x, r + 1, Append(sent \o naks, XrxAck(slot)))

\* the bytes of the local uid as memcpy(txbuf + 2, &uid, 8) lays them out:
\* slot << uid_pos summed over the rounds
XrxUid(pick) ==
    [j \in 1..8 |-> pick[4 * j - 3] + 4 * pick[4 * j - 2] + 16 * pick[4 * j - 1]
                        + 64 * pick[4 * j]]

\* the ATTRIB command: txbuf + 1, 15 bytes
XrxAttrib(uid) == AddCrc14B(<<29>> \o uid \o <<0, 15, 1, 15>>, 13)

\* the PASSWORD command: txbuf, 17 bytes
XrxPassword(uid) == AddCrc14B(<<2, 56>> \o uid \o <<3, 78, 75, 83, 79>>, 15)

\* iso14443b_select_xrx_card(card), card pointing at c, after its
\* iso14b_set_timeout(24): the slots as x.pick and x.data say, then the tag
\* answering x.atqb, x.attrib to ATTRIB and x.pwd to PASSWORD
SelectXrx(c, x) ==
    LET ac     == XrxAnticollision(x, 0, <<XrxWup1, XrxWup2>>)
        uid    == XrxUid(x.pick)
        x_atqb == Received([i \in 1..24 |-> 0], x.atqb.data)
        x_att  == Received(x_atqb, x.attrib.data)
        x_pwd  == Received(x_att, x.pwd.data)
        c1     == [c EXCEPT !.uidlen = 8, !.uid = SubSeq(x_atqb, 2, 9),
                            !.atqb = SubSeq(x_atqb, 10, 16)]
        s2     == Append(ac.sent, XrxAttrib(uid))
        s3     == Append(s2, XrxPassword(uid))
        x1     == <<x.atqb.data>>
        x2     == <<x.atqb.data, x.attrib.data>>
        x3     == <<x.atqb.data, x.attrib.data, x.pwd.data>>
    IN  IF ac.ret # PM3_SUCCESS THEN Flow(ac.ret, c, ac.sent, <<>>, 0)
        ELSE IF x.atqb.st # PM3_SUCCESS THEN Flow(PM3_ECARDEXCHANGE, c, ac.sent, <<>>, 1)
        ELSE IF Len(x.atqb.data) < 18 THEN Flow(PM3_ELENGTH, c, ac.sent, x1, 1)
        ELSE IF ~CheckCrc14B(x_atqb, 18) THEN Flow(PM3_ECRC, c, ac.sent, x1, 1)
        ELSE IF x_atqb[1] # 80 THEN Flow(PM3_EWRONGANSWER, c, ac.sent, x1, 1)
        ELSE IF x.attrib.st # PM3_SUCCESS THEN Flow(PM3_ECARDEXCHANGE, c1, s2, x1, 2)
        ELSE IF Len(x.attrib.data) < 3 THEN Flow(PM3_ELENGTH, c1, s2, x2, 2)
        ELSE IF ~CheckCrc14B(x_att, 3) THEN Flow(PM3_ECRC, c1, s2, x2, 2)
        ELSE IF x_att[1] # 0 THEN Flow(PM3_EWRONGANSWER, c1, s2, x2, 2)
        ELSE IF x.pwd.st # PM3_SUCCESS THEN Flow(PM3_ECARDEXCHANGE, c1, s3, x2, 3)
        ELSE IF Len(x.pwd.data) < 4 THEN Flow(PM3_ELENGTH, c1, s3, x3, 3)
        ELSE IF ~CheckCrc14B(x_pwd, 4) THEN Flow(PM3_ECRC, c1, s3, x3, 3)
        ELSE IF x_pwd[1] # 2 \/ x_pwd[2] # 0 THEN Flow(PM3_EWRONGANSWER, c1, s3, x3, 3)
        ELSE Flow(PM3_SUCCESS, c1, s3, x3, 3)

-----------------------------------------------------------------------------
(* SendRawCommand14443B. One call is followed step by step; p->flags is an  *)
(* input of the call, fixed at entry, and each step tests its bit of it.   *)

PM3_ETEAROFF == "PM3_ETEAROFF"

\* no call of SendRawCommand14443B in progress
DispIdle ==
    /\ g_trigger = FALSE
    /\ dpc = "idle"
    /\ dFlags = {}
    /\ dLog = <<>>
    /\ dReplies = <<>>

\* the session iso14443b_setup leaves behind: an earlier call with ISO14B_CONNECT
SessConnected ==
    /\ s_iso14b_pcb_blocknum = 0
    /\ s_iso14b_fwt = 8
    /\ s_iso14b_timeout = FwtTimeout(8)
    /\ s_field_on = TRUE
    /\ Uart_byteCntMax = MAX_FRAME_SIZE

\* the bits of p->flags
DFlagBits ==
    {"ISO14B_REQUEST_TRIGGER", "ISO14B_CONNECT", "ISO14B_SET_TIMEOUT",
     "ISO14B_CLEARTRACE", "ISO14B_SELECT_STD", "ISO14B_SELECT_SR",
     "ISO14B_SELECT_XRX", "ISO14B_SELECT_CTS", "ISO14B_SELECT_PICOPASS",
     "ISO14B_APDU", "ISO14B_SEND_CHAINING", "ISO14B_RAW", "ISO14B_APPEND_CRC",
     "ISO14B_DISCONNECT"}

\* entry of SendRawCommand14443B with any p->flags: buf zeroed, status 0
DispEntry ==
    /\ g_trigger = FALSE
    /\ dpc = "trigger_on"
    /\ dFlags \in SUBSET DFlagBits
    /\ dLog = <<>>
    /\ dReplies = <<>>

\* "(p->flags & flag) == flag"
DFlagSet(flag) == flag \in dFlags

\* the test of one flag bit and the step it guards, performed if the bit is set
DTaken(next, flag, step) ==
    /\ dpc' = next
    /\ dLog' = IF DFlagSet(flag) THEN Append(dLog, step) ELSE dLog
    /\ UNCHANGED dFlags

\* reply_ng(CMD_HF_ISO14443B_COMMAND, st, ...) made by step
DReply(step, st) == dReplies' = Append(dReplies, [step |-> step, status |-> st])

\* a failed select leaving the call without passing "out:"
DAfterReturns(st, next) == IF st = PM3_SUCCESS THEN next ELSE "done"

\* "if (status != PM3_SUCCESS) goto out;"
DAfter(st, next) == IF st = PM3_SUCCESS THEN next ELSE "out"

\* the field test guarding only the APDU step
FieldOffApduOnly(apdu, raw) == apdu /\ s_field_on = FALSE

\* "if field is off...": ISO14B_APDU or ISO14B_RAW requested without a field
FieldOff(apdu, raw) == (apdu \/ raw) /\ s_field_on = FALSE

\* "turn on trigger"
DTriggerOn ==
    /\ dpc = "trigger_on"
    /\ DTaken("connect", "ISO14B_REQUEST_TRIGGER", "trigger_on")
    /\ g_trigger' = IF DFlagSet("ISO14B_REQUEST_TRIGGER") THEN TRUE ELSE g_trigger
    /\ UNCHANGED <<dReplies, simVars, sessVars, apduVars, selVars>>

\* ISO14B_CONNECT: iso14443b_setup()
DConnect ==
    /\ dpc = "connect"
    /\ DTaken("set_timeout", "ISO14B_CONNECT", "connect")
    /\ IF DFlagSet("ISO14B_CONNECT") THEN Setup ELSE UNCHANGED <<simVars, sessVars, apduVars, selVars>>
    /\ UNCHANGED <<g_trigger, dReplies>>

\* ISO14B_SET_TIMEOUT: iso14b_set_timeout(p->timeout)
DSetTimeout(t) ==
    /\ dpc = "set_timeout"
    /\ DTaken("clear_trace", "ISO14B_SET_TIMEOUT", "set_timeout")
    /\ IF DFlagSet("ISO14B_SET_TIMEOUT") THEN SetTimeoutCmd(t)
       ELSE UNCHANGED <<simVars, sessVars, apduVars, selVars>>
    /\ UNCHANGED <<g_trigger, dReplies>>

\* ISO14B_CLEARTRACE: clear_trace()
DClearTrace ==
    /\ dpc = "clear_trace"
    /\ DTaken("select_std", "ISO14B_CLEARTRACE", "clear_trace")
    /\ UNCHANGED <<g_trigger, dReplies, simVars, sessVars, apduVars, selVars>>

\* answers of the tag to the standard select inside a dispatcher call
DispAtqbAnswers == {Ok(defaultATQB), Fail(PM3_ETIMEOUT)}

DispAttribAnswers == {Ok(respOK)}

\* ISO14B_SELECT_STD: iso14443b_select_card, its reply, "goto out" on failure
DSelectStd(o1, o2) ==
    /\ dpc = "select_std"
    /\ IF DFlagSet("ISO14B_SELECT_STD")
       THEN /\ SelectCard(o1, o2)
            /\ DReply("select_std", status')
            /\ DTaken(DAfter(status', "select_sr"), "ISO14B_SELECT_STD", "select_std")
       ELSE /\ DTaken("select_sr", "ISO14B_SELECT_STD", "select_std")
            /\ UNCHANGED <<dReplies, simVars, sessVars, apduVars, selVars>>
    /\ UNCHANGED g_trigger

\* the four other select steps, in the order of the code: step, flag, next step
DOtherSelects ==
    <<[step |-> "select_sr", flag |-> "ISO14B_SELECT_SR", next |-> "select_xrx"],
      [step |-> "select_xrx", flag |-> "ISO14B_SELECT_XRX", next |-> "select_cts"],
      [step |-> "select_cts", flag |-> "ISO14B_SELECT_CTS", next |-> "select_picopass"],
      [step |-> "select_picopass", flag |-> "ISO14B_SELECT_PICOPASS",
       next |-> "field_check"]>>

\* a tag that stays silent
Silent == Fail(PM3_ETIMEOUT)

\* SR-X tags: chip-ID 0x42 and UID 01 .. 07 D0; one that echoes another
\* chip-ID; one whose UID comes with a bad CRC; none
SrxScripts ==
    {<<Ok(WithCrc(<<66>>)), Ok(WithCrc(<<66>>)),
       Ok(WithCrc(<<1, 2, 3, 4, 5, 6, 7, 208>>))>>,
     <<Ok(WithCrc(<<66>>)), Ok(WithCrc(<<67>>)), Silent>>,
     <<Ok(WithCrc(<<66>>)), Ok(WithCrc(<<66>>)),
       Ok(BadCrc(WithCrc(<<1, 2, 3, 4, 5, 6, 7, 208>>)))>>,
     <<Silent, Silent, Silent>>}

\* ASK CTS tags: product code 0x11, fab code 0x22, UID A1 A2 B1 B2; one
\* answering three bytes; one with a bad CRC; none
CtsScripts ==
    {<<Ok(WithCrc(<<17, 34>>)), Ok(WithCrc(<<161, 162>>)), Ok(WithCrc(<<177, 178>>))>>,
     <<Ok(<<17, 34, 1>>), Silent, Silent>>,
     <<Ok(WithCrc(<<17, 34>>)), Ok(BadCrc(WithCrc(<<161, 162>>))), Silent>>,
     <<Silent, Silent, Silent>>}

\* a Picopass block as the tag sends it: 8 bytes and 2 of CRC, which the
\* select function does not look at
PicoBlock(b) == b \o <<0, 0>>

PicoCsn == <<1, 2, 3, 4, 5, 6, 7, 8>>

\* the configuration block with conf.fuses = f
PicoConf(f) == <<18, 255, 255, 255, 127, 31, 255, f>>

\* Picopass tags: a secure page map (fuses 0) answering the five reads, a
\* non-secure one (fuses 8) answering four, one whose e-purse comes ten bytes
\* long, none
PicoScripts ==
    {<<Ok(PicoBlock(PicoCsn)), Ok(PicoBlock(PicoCsn)), Ok(PicoBlock(PicoConf(0))),
       Ok(PicoBlock(<<255, 255, 255, 255, 255, 255, 255, 255>>)),
       Ok(<<254, 255, 255, 255, 255, 255, 255, 255>>)>>,
     <<Ok(PicoBlock(PicoCsn)), Ok(PicoBlock(PicoCsn)), Ok(PicoBlock(PicoConf(8))),
       Ok(PicoBlock(<<255, 255, 255, 255, 255, 255, 255, 255>>)), Silent>>,
     <<Ok(PicoBlock(PicoCsn)), Ok(PicoBlock(PicoCsn)), Ok(PicoBlock(PicoConf(0))),
       Ok(PicoBlock(<<255, 255, 255, 255, 255, 255, 255, 255>>)),
       Ok(PicoBlock(<<254, 255, 255, 255, 255, 255, 255, 255>>))>>,
     <<Silent, Silent, Silent, Silent, Silent>>}

\* the slots of a tag whose 64-bit UID is 01 02 03 04 05 06 07 08, two bits
\* a round from the least significant
XrxPick ==
    <<1, 0, 0, 0,  2, 0, 0, 0,  3, 0, 0, 0,  0, 1, 0, 0,
      1, 1, 0, 0,  2, 1, 0, 0,  3, 1, 0, 0,  0, 2, 0, 0>>

XrxAtqb == WithCrc(<<80, 1, 2, 3, 4, 5, 6, 7, 8, 32, 56, 25, 34, 0, 33, 133>>)

\* Xerox tags: one that completes the select; one whose ATQB starts with
\* another byte; one that sends data in the first slot; none
XrxScripts ==
    {[pick |-> XrxPick, data |-> 32, atqb |-> Ok(XrxAtqb),
      attrib |-> Ok(WithCrc(<<0>>)), pwd |-> Ok(WithCrc(<<2, 0>>))],
     [pick |-> XrxPick, data |-> 32,
      atqb |-> Ok(WithCrc(<<81, 1, 2, 3, 4, 5, 6, 7, 8, 32, 56, 25, 34, 0, 33, 133>>)),
      attrib |-> Silent, pwd |-> Silent],
     [pick |-> XrxPick, data |-> 0, atqb |-> Silent, attrib |-> Silent,
      pwd |-> Silent],
     [pick |-> [r \in 1..32 |-> 4], data |-> 32, atqb |-> Silent, attrib |-> Silent,
      pwd |-> Silent]}

\* the tags each of the four steps may meet
OtherScripts(k) ==
    CASE k = 1 -> SrxScripts
      [] k = 2 -> XrxScripts
      [] k = 3 -> CtsScripts
      [] k = 4 -> PicoScripts

\* the memset of the step's descriptor in buf and its select function, the
\* tag behaving as a says
\* the bytes of an iso14b_cts_card_select_t: uid[4], pc, fc
CtsBytes(c) == Take(c.uid, 4) \o <<c.pc, c.fc>>

\* the bytes of a picopass_hdr_t: csn, conf, epurse, key_d, key_c,
\* app_issuer_area, 8 bytes each
HdrBytes(h) ==
    Take(h.csn, 8) \o Take(h.conf, 8) \o Take(h.epurse, 8) \o Take(<<>>, 16)
        \o Take(h.app_issuer_area, 8)

\* buf from its start once the select function of step k has filled the
\* descriptor d, the memset of the step included
DescBytes(k, d) ==
    CASE k \in {1, 2} -> CardBytes(d)
      [] k = 3 -> CtsBytes(d)
      [] k = 4 -> HdrBytes(d)

OtherFlow(k, a) ==
    CASE k = 1 -> SelectSrx(ZeroCard, a)
      [] k = 2 -> SelectXrx(ZeroCard, a)
      [] k = 3 -> SelectCts(ZeroCts, a)
      [] k = 4 -> SelectPicopass(ZeroHdr, a)

\* OtherFlow(k, a) for every step and every tag it may meet, computed once
OtherFlows == UNION {{<<k, a, OtherFlow(k, a)>> : a \in OtherScripts(k)} : k \in 1..4}

\* OtherFlow(k, a), looked up
OtherFlowOf(k, a) == (CHOOSE t \in OtherFlows : t[1] = k /\ t[2] = a)[3]

\* s_iso14b_timeout after the select function of a step, cur before it:
\* iso14443b_select_xrx_card starts with iso14b_set_timeout(24), the three
\* others write no session static
SelectOtherTimeout(step, cur) ==
    IF step = "select_xrx" THEN SetTimeout(24) ELSE cur

\* ISO14B_SELECT_SR / _XRX / _CTS / _PICOPASS: memset of the descriptor, the
\* select function, its reply carrying the descriptor, "goto out" on failure
DSelectOther(k, a) ==
    /\ dpc = DOtherSelects[k].step
    /\ IF DFlagSet(DOtherSelects[k].flag)
       THEN LET f == OtherFlowOf(k, a)
            IN  /\ DTaken(DAfter(f.ret, DOtherSelects[k].next),
                          DOtherSelects[k].flag, DOtherSelects[k].step)
                /\ DReply(DOtherSelects[k].step, f.ret)
                /\ status' = f.ret
                /\ lastOp' = DOtherSelects[k].step
                /\ txFrame' = f.sent[Len(f.sent)]
                /\ txCount' = Len(f.sent)
                /\ ApduLocalsReset
                /\ rxdata' = Received(rxdata, DescBytes(k, f.card))
                /\ card' = f.card
                /\ selRx' = f.rx
                /\ selTx' = f.sent
       ELSE /\ DTaken(DOtherSelects[k].next, DOtherSelects[k].flag,
                      DOtherSelects[k].step)
            /\ UNCHANGED <<dReplies, apduVars, selVars>>
    /\ s_iso14b_timeout' = IF DFlagSet(DOtherSelects[k].flag)
                           THEN SelectOtherTimeout(DOtherSelects[k].step, s_iso14b_timeout)
                           ELSE s_iso14b_timeout
    /\ UNCHANGED <<g_trigger, simVars, s_iso14b_pcb_blocknum, s_iso14b_fwt, s_field_on,
                   Uart_byteCntMax>>

\* "if field is off...": the tests of ISO14B_APDU and ISO14B_RAW
DFieldCheck ==
    /\ dpc = "field_check"
    /\ UNCHANGED dFlags
    /\ IF FieldOff(DFlagSet("ISO14B_APDU"), DFlagSet("ISO14B_RAW"))
       THEN /\ DReply("field_check", PM3_ERFTRANS)
            /\ dpc' = "out"
       ELSE /\ UNCHANGED dReplies
            /\ dpc' = "apdu"
    /\ UNCHANGED <<g_trigger, dLog, simVars, sessVars, apduVars, selVars>>

\* answers of the tag to the APDU inside a dispatcher call
DispApduAnswers ==
    {Ok(WithCrc(<<2, 144, 0>>)), Ok(WithCrc(<<242, 3>>)), Fail(PM3_ETIMEOUT)}

\* p->raw of a call with ISO14B_APDU: a SELECT header
DispApduFrames == {<<0, 164, 0, 0>>}

\* ISO14B_APDU: the call of iso14443b_apdu(p->raw, p->rawlen, chaining, buf, ...),
\* chaining being the bit ISO14B_SEND_CHAINING; msg is p->raw
DApduCall(msg) ==
    /\ dpc = "apdu"
    /\ IF DFlagSet("ISO14B_APDU")
       THEN /\ ApduCallOn(msg, DFlagSet("ISO14B_SEND_CHAINING"), rxdata)
            /\ UNCHANGED selVars
            /\ dpc' = "apdu_wait"
            /\ dLog' = Append(dLog, "apdu")
       ELSE /\ dpc' = "raw"
            /\ UNCHANGED <<dLog, simVars, sessVars, apduVars, selVars>>
    /\ UNCHANGED <<g_trigger, dFlags, dReplies>>

\* iso14443b_apdu receives the tag's answer and returns
DApduRx(o) ==
    /\ dpc = "apdu_wait"
    /\ ApduRx(o)
    /\ dLog' = Append(dLog, "apdu_rx")
    /\ dpc' = IF pc' = "idle" THEN "apdu_reply" ELSE "apdu_wait"
    /\ UNCHANGED <<g_trigger, dFlags, dReplies>>

\* iso14443b_apdu receives the tag's answer to its S(WTX) response, a round of
\* the receive the log already holds
DApduWtxRx(o) ==
    /\ dpc = "apdu_wait"
    /\ ApduWtxRx(o)
    /\ dpc' = IF pc' = "idle" THEN "apdu_reply" ELSE "apdu_wait"
    /\ UNCHANGED <<g_trigger, dFlags, dLog, dReplies>>

\* tearoff_hook() and the reply of the APDU step
DApduReply(tear) ==
    /\ dpc = "apdu_reply"
    /\ DReply("apdu", IF tear THEN PM3_ETEAROFF ELSE status)
    /\ dpc' = "raw"
    /\ UNCHANGED <<g_trigger, dFlags, dLog, simVars, sessVars, apduVars, selVars>>

\* p->raw of a call with ISO14B_RAW: none, a REQB without CRC, the Picopass
\* READ of block 1, the APDU
RawFrames == {<<>>, <<5, 0, 8>>, <<12, 1>>} \cup DispApduFrames

\* AddCrc15(buf, n): the CRC of ISO 15693 over buf[0..n-1], low byte first in
\* buf[n], buf[n+1]; it is the CRC of CRC-B (x25)
AddCrc15(buf, n) ==
    LET c == Crc14B(buf, n)
    IN  Store(Store(buf, n, c % 256), n + 1, c \div 256)

\* p->raw once the RAW step has appended the CRC the flags ask for: none
\* without ISO14B_APPEND_CRC or for an empty frame, AddCrc15 over the frame
\* without its first byte with ISO14B_SELECT_PICOPASS, AddCrc14B otherwise
RawWithCrc(raw) ==
    IF DFlagSet("ISO14B_APPEND_CRC") /\ Len(raw) > 0
    THEN IF DFlagSet("ISO14B_SELECT_PICOPASS")
         THEN <<raw[1]>> \o AddCrc15(Tail(raw), Len(raw) - 1)
         ELSE AddCrc14B(raw, Len(raw))
    ELSE raw

\* ISO14B_RAW: the optional CRC, the transmission, tearoff_hook(); raw is
\* p->raw, the bytes the APDU step sent if there was one
DRaw(raw, tear) ==
    /\ dpc = "raw"
    /\ IF DFlagSet("ISO14B_RAW")
       THEN /\ DFlagSet("ISO14B_APDU") => raw = apduMsg
            /\ UNCHANGED dFlags
            /\ dLog' = Append(dLog, "raw")
            /\ txFrame' = RawWithCrc(raw)
            /\ txCount' = 1
            /\ lastOp' = "raw"
            /\ ApduLocalsReset
            /\ UNCHANGED rxdata
            /\ IF tear
               THEN /\ DReply("raw", PM3_ETEAROFF)
                    /\ dpc' = "out"
               ELSE /\ UNCHANGED dReplies
                    /\ dpc' = "raw_rx"
            /\ UNCHANGED <<status, selVars>>
       ELSE /\ ~tear /\ raw = <<>>
            /\ dpc' = "out"
            /\ UNCHANGED <<dFlags, dLog, dReplies, apduVars, selVars>>
    /\ UNCHANGED <<g_trigger, simVars, sessVars>>

\* answers of the tag to the raw frame
DispRawAnswers == {Ok(WithCrc(<<80, 1, 2, 3, 4>>)), Fail(PM3_ETIMEOUT)}

\* the Get14443bAnswerFromTag of the RAW step and its reply
DRawRx(o) ==
    /\ dpc = "raw_rx"
    /\ dLog' = Append(dLog, "raw_rx")
    /\ status' = o.st
    /\ DReply("raw", o.st)
    /\ rxFrame' = o.data
    /\ rxdata' = Received(rxdata, o.data)
    /\ len' = Len(o.data)
    /\ rxTimeout' = s_iso14b_timeout
    /\ dpc' = "out"
    /\ UNCHANGED <<pc, save_timeout, txFrame, txCount, wtxRounds, lastWtxm, lastFwi,
                   response_byte, responselen, retData, entryBlocknum, entryTimeout,
                   apduMsg, apduChaining, retPath, lastOp>>
    /\ UNCHANGED <<g_trigger, dFlags, simVars, sessVars, selVars>>

\* out: "turn off trigger"
DTriggerOff ==
    /\ dpc = "out"
    /\ dpc' = "disconnect"
    /\ IF DFlagSet("ISO14B_REQUEST_TRIGGER")
       THEN /\ g_trigger' = FALSE
            /\ dLog' = Append(dLog, "trigger_off")
       ELSE UNCHANGED <<g_trigger, dLog>>
    /\ UNCHANGED <<dFlags, dReplies, simVars, sessVars, apduVars, selVars>>

\* ISO14B_DISCONNECT: switch_off(), s_field_on = false; the call returns
DDisconnect ==
    /\ dpc = "disconnect"
    /\ DTaken("done", "ISO14B_DISCONNECT", "disconnect")
    /\ s_field_on' = IF DFlagSet("ISO14B_DISCONNECT") THEN FALSE ELSE s_field_on
    /\ UNCHANGED <<s_iso14b_pcb_blocknum, s_iso14b_fwt, s_iso14b_timeout,
                   Uart_byteCntMax>>
    /\ UNCHANGED <<g_trigger, dReplies, simVars, apduVars, selVars>>

-----------------------------------------------------------------------------
(* CodeIso14443bAsReader and Handle14443bSampleFromReader.                 *)

\* tosend_stuffbit(b): one more logical bit in ToSend
StuffBit(ts, b) == Append(ts, b)

\* SOF with eleven zeros
SofBits11(ts) == ts \o <<0, 0, 0, 0, 0, 0, 0, 0, 0, 0, 0, 1, 1>>

\* "Send SOF": 10 ETU of zero, 2 ETU of one
SofBits(ts) == ts \o <<0, 0, 0, 0, 0, 0, 0, 0, 0, 0, 1, 1>>

\* "Send EOF": 10 ETU of zero
EofBits(ts) == ts \o <<0, 0, 0, 0, 0, 0, 0, 0, 0, 0>>

\* a character sent most significant bit first
CharBitsMsbFirst(ts, b) ==
    ts \o <<0, (b \div 128) % 2, (b \div 64) % 2, (b \div 32) % 2, (b \div 16) % 2,
            (b \div 8) % 2, (b \div 4) % 2, (b \div 2) % 2, b % 2, 1>>

\* start bit, data bits b & 1, (b >> 1) & 1, ..., (b >> 7) & 1, stop bit
CharBits(ts, b) ==
    ts \o <<0, b % 2, (b \div 2) % 2, (b \div 4) % 2, (b \div 8) % 2,
            (b \div 16) % 2, (b \div 32) % 2, (b \div 64) % 2, (b \div 128) % 2, 1>>

\* "Sending cmd, LSB": the loop over i .. n - 1, ten bits for each character
CodeChars(ts, cmd, i, n) ==
    ts \o [k \in 1..(10 * (IF n > i THEN n - i ELSE 0)) |->
              CharBits(<<>>, cmd[i + 1 + ((k - 1) \div 10)])[1 + ((k - 1) % 10)]]

\* CodeIso14443bAsReader(cmd, len, framing): the logical bits left in ToSend
CodeIso14443bAsReader(cmd, n, framing) ==
    LET sof == IF framing THEN SofBits(<<>>) ELSE <<>>
        body == CodeChars(sof, cmd, 0, n)
    IN IF framing THEN EofBits(body) ELSE body

STATE_14B_UNSYNCD == "STATE_14B_UNSYNCD"
STATE_14B_GOT_FALLING_EDGE_OF_SOF == "STATE_14B_GOT_FALLING_EDGE_OF_SOF"
STATE_14B_AWAITING_START_BIT == "STATE_14B_AWAITING_START_BIT"
STATE_14B_RECEIVING_DATA == "STATE_14B_RECEIVING_DATA"

\* Uart14bInit / Uart14bReset, no stream on the line
UartInit ==
    /\ Uart_state = STATE_14B_UNSYNCD
    /\ Uart_shiftReg = 0
    /\ Uart_bitCnt = 0
    /\ Uart_byteCnt = 0
    /\ Uart_posCnt = 0
    /\ Uart_output = <<>>
    /\ uKind = "none"
    /\ uCmd = <<>>
    /\ uBits = <<>>
    /\ uFed = 0
    /\ uTrues = 0
    /\ uTrueAt = 0
    /\ uAwaited = FALSE

\* Uart.output[Uart.byteCnt] = v
UartStore(out, idx, v) ==
    IF idx < Len(out) THEN [out EXCEPT ![idx + 1] = v] ELSE Append(out, v)

\* a SOF accepted after nine zeros
SofValidNine(bitCnt) == bitCnt > 8

\* "we've seen enough consecutive zeros that it's a valid SOF"
SofValid(bitCnt) == bitCnt > 9

\* Handle14443bSampleFromReader(bit) on the Uart u with the cap byteCntMax: the
\* new Uart and the value returned
UartStepOn(u, byteCntMax, bit) ==
    LET cur == [u EXCEPT !.ret = FALSE]
        p1 == u.posCnt + 1
    IN CASE u.state = STATE_14B_UNSYNCD ->
              IF bit = 0
              THEN [cur EXCEPT !.state = STATE_14B_GOT_FALLING_EDGE_OF_SOF,
                               !.posCnt = 0, !.bitCnt = 0]
              ELSE cur
         [] u.state = STATE_14B_GOT_FALLING_EDGE_OF_SOF ->
              LET sampled == p1 = 2
                  valid == sampled /\ bit # 0 /\ SofValid(u.bitCnt)
                  st1 == IF sampled /\ bit # 0
                         THEN (IF SofValid(u.bitCnt) THEN STATE_14B_AWAITING_START_BIT
                               ELSE STATE_14B_UNSYNCD)
                         ELSE u.state
                  p2 == IF valid THEN 0 ELSE p1
                  b1 == IF sampled THEN u.bitCnt + 1 ELSE u.bitCnt
              IN [cur EXCEPT !.state = IF b1 > 12 THEN STATE_14B_UNSYNCD ELSE st1,
                             !.posCnt = IF p2 >= 4 THEN 0 ELSE p2,
                             !.bitCnt = b1,
                             !.byteCnt = IF valid THEN 0 ELSE u.byteCnt]
         [] u.state = STATE_14B_AWAITING_START_BIT ->
              IF bit # 0
              THEN [cur EXCEPT !.posCnt = p1,
                               !.state = IF p1 > 50 \div 2 THEN STATE_14B_UNSYNCD
                                         ELSE u.state]
              ELSE [cur EXCEPT !.posCnt = 0, !.bitCnt = 0, !.shiftReg = 0,
                               !.state = STATE_14B_RECEIVING_DATA]
         [] u.state = STATE_14B_RECEIVING_DATA ->
              LET sampled == p1 = 2
                  sr == IF sampled
                        THEN (u.shiftReg \div 2) + (IF bit # 0 THEN 512 ELSE 0)
                        ELSE u.shiftReg
                  b1 == IF sampled THEN u.bitCnt + 1 ELSE u.bitCnt
                  p2 == IF p1 >= 4 THEN 0 ELSE p1
                  nxt == [cur EXCEPT !.shiftReg = sr, !.bitCnt = b1, !.posCnt = p2]
              IN IF b1 # 10 THEN nxt
                 ELSE IF sr \div 512 % 2 = 1 /\ sr % 2 = 0
                 THEN IF u.byteCnt + 1 >= byteCntMax
                      THEN [nxt EXCEPT !.output = UartStore(u.output, u.byteCnt,
                                                            (sr \div 2) % 256),
                                       !.byteCnt = u.byteCnt + 1,
                                       !.state = STATE_14B_UNSYNCD]
                      ELSE [nxt EXCEPT !.output = UartStore(u.output, u.byteCnt,
                                                            (sr \div 2) % 256),
                                       !.byteCnt = u.byteCnt + 1,
                                       !.posCnt = 0,
                                       !.state = STATE_14B_AWAITING_START_BIT]
                 ELSE IF sr = 0
                 THEN [nxt EXCEPT !.state = STATE_14B_UNSYNCD,
                                  !.ret = u.byteCnt # 0]
                 ELSE [nxt EXCEPT !.state = STATE_14B_UNSYNCD]

\* the static Uart
UartNow ==
    [state |-> Uart_state, shiftReg |-> Uart_shiftReg, bitCnt |-> Uart_bitCnt,
     byteCnt |-> Uart_byteCnt, posCnt |-> Uart_posCnt, output |-> Uart_output,
     ret |-> FALSE]

\* Handle14443bSampleFromReader(bit): the new Uart and the value returned
UartStep(bit) == UartStepOn(UartNow, Uart_byteCntMax, bit)

\* one call of Handle14443bSampleFromReader
Handle14443bSampleFromReader(bit) ==
    LET r == UartStep(bit)
    IN /\ Uart_state' = r.state
       /\ Uart_shiftReg' = r.shiftReg
       /\ Uart_bitCnt' = r.bitCnt
       /\ Uart_byteCnt' = r.byteCnt
       /\ Uart_posCnt' = r.posCnt
       /\ Uart_output' = r.output
       /\ uTrues' = IF r.ret THEN uTrues + 1 ELSE uTrues
       /\ uTrueAt' = IF r.ret THEN uFed + 1 ELSE uTrueAt
       /\ uAwaited' = (uAwaited \/ r.state = STATE_14B_AWAITING_START_BIT)

\* longest run of zeros put in front of a one
MaxZeros == 24

\* the octet strings encoded: every single byte, the empty string, REQB and
\* WUPB with their CRC
UartCmds == {<<x>> : x \in 0..255} \cup {<<>>, cmdREQB, cmdWUPB}

\* CodeIso14443bAsReader(cmd, len, framing) puts its bits on the line
UEncode(cmd, framing) ==
    /\ uKind = "none"
    /\ uKind' = IF framing THEN "frame" ELSE "unframed"
    /\ uCmd' = cmd
    /\ uBits' = CodeIso14443bAsReader(cmd, Len(cmd), framing)
    /\ UNCHANGED <<Uart_state, Uart_shiftReg, Uart_bitCnt, Uart_byteCnt, Uart_posCnt,
                   Uart_output, uFed, uTrues, uTrueAt, uAwaited>>

\* a reader holding the line low for n bit times, then high for one
USofRun(n) ==
    /\ uKind = "none"
    /\ uKind' = "sof"
    /\ uBits' = [i \in 1..(n + 1) |-> IF i <= n THEN 0 ELSE 1]
    /\ UNCHANGED <<Uart_state, Uart_shiftReg, Uart_bitCnt, Uart_byteCnt, Uart_posCnt,
                   Uart_output, uCmd, uFed, uTrues, uTrueAt, uAwaited>>

\* the next sample of the line, 4 per bit, given to the UART
USample ==
    /\ uKind # "none"
    /\ uFed < 4 * Len(uBits)
    /\ Handle14443bSampleFromReader(uBits[uFed \div 4 + 1])
    /\ uFed' = uFed + 1
    /\ UNCHANGED <<uKind, uCmd, uBits>>

-----------------------------------------------------------------------------
(* Handle14443bSamplesFromTag and Get14443bAnswerFromTag.                  *)

DEMOD_UNSYNCD == "DEMOD_UNSYNCD"
DEMOD_PHASE_REF_TRAINING == "DEMOD_PHASE_REF_TRAINING"
WAIT_FOR_RISING_EDGE_OF_SOF == "WAIT_FOR_RISING_EDGE_OF_SOF"
DEMOD_AWAITING_START_BIT == "DEMOD_AWAITING_START_BIT"
DEMOD_RECEIVING_DATA == "DEMOD_RECEIVING_DATA"

\* the place of a state in the enum of Demod.state
DemodOrd(st) ==
    CASE st = DEMOD_UNSYNCD -> 0
      [] st = DEMOD_PHASE_REF_TRAINING -> 1
      [] st = WAIT_FOR_RISING_EDGE_OF_SOF -> 2
      [] st = DEMOD_AWAITING_START_BIT -> 3
      [] st = DEMOD_RECEIVING_DATA -> 4

SUBCARRIER_DETECT_THRESHOLD == 8
DELAY_TAG_TO_ARM == 32
DMA_BUFFER_SIZE == 256

Abs(x) == IF x < 0 THEN 0 - x ELSE x

Max2(a, b) == IF a > b THEN a ELSE b

Min2(a, b) == IF a < b THEN a ELSE b

\* mutant of Amplitude: the larger of the two alone
AmplitudeMax(ci, cq) == Max2(Abs(ci), Abs(cq))

\* AMPLITUDE(ci, cq)
Amplitude(ci, cq) == Max2(Abs(ci), Abs(cq)) + Min2(Abs(ci), Abs(cq)) \div 2

\* MAKE_SOFT_DECISION() with the sums of the Demod
SoftDecision(sumI, sumQ, ci, cq) ==
    (IF sumI > 0 THEN ci ELSE 0 - ci) + (IF sumQ > 0 THEN cq ELSE 0 - cq)

\* the polarity test of DEMOD_PHASE_REF_TRAINING
SamePolarity(sumI, sumQ, ci, cq) ==
    \/ /\ Abs(sumI) > Abs(sumQ)
       /\ ((ci > 0 /\ sumI > 0) \/ (ci < 0 /\ sumI < 0))
    \/ /\ Abs(sumI) <= Abs(sumQ)
       /\ ((cq > 0 /\ sumQ > 0) \/ (cq < 0 /\ sumQ < 0))

\* static Demod before the first Demod14bInit, Get14443bAnswerFromTag not called
DemodInit ==
    /\ Demod_state = DEMOD_UNSYNCD
    /\ Demod_bitCount = 0
    /\ Demod_posCount = 0
    /\ Demod_thisBit = 0
    /\ Demod_shiftReg = 0
    /\ Demod_max_len = 0
    /\ Demod_output = <<>>
    /\ Demod_len = 0
    /\ Demod_sumI = 0
    /\ Demod_sumQ = 0
    /\ storeFault = FALSE
    /\ gPc = "idle"
    /\ gStream = <<>>
    /\ gPeriod = 0
    /\ gPos = 0
    /\ gUpTo = 0
    /\ gFirstTick = 0
    /\ gDmaStart = 0
    /\ gTimeout = 0
    /\ gSamples = 0
    /\ gElapsed = 0
    /\ gEofTime = 0
    /\ gRet = "none"
    /\ gTxClock = 0
    /\ gStartTime = 0
    /\ gMark = [seen |-> <<>>, again |-> FALSE]

\* Handle14443bSamplesFromTag(ci, cq) on the Demod d: the new Demod, the
\* value returned, and behind: the call stored a byte at Demod.output[len]
\* with len >= max_len, outside the buffer it was given
DemodStepOn(d, ci, cq) ==
    LET cur == [d EXCEPT !.ret = FALSE, !.behind = FALSE]
        v == SoftDecision(d.sumI, d.sumQ, ci, cq)
        start == [cur EXCEPT !.posCount = 1, !.thisBit = v, !.shiftReg = 0,
                             !.state = DEMOD_RECEIVING_DATA]
    IN CASE d.state = DEMOD_UNSYNCD ->
              IF Amplitude(ci, cq) > SUBCARRIER_DETECT_THRESHOLD
              THEN [cur EXCEPT !.state = DEMOD_PHASE_REF_TRAINING, !.sumI = ci,
                               !.sumQ = cq, !.posCount = 1]
              ELSE cur
         [] d.state = DEMOD_PHASE_REF_TRAINING ->
              IF Amplitude(ci, cq) > SUBCARRIER_DETECT_THRESHOLD
              THEN IF SamePolarity(d.sumI, d.sumQ, ci, cq)
                   THEN IF d.posCount < 10
                        THEN [cur EXCEPT !.sumI = d.sumI + ci, !.sumQ = d.sumQ + cq,
                                         !.posCount = d.posCount + 1]
                        ELSE [cur EXCEPT !.posCount = d.posCount + 1]
                   ELSE IF d.posCount < 10
                        THEN [cur EXCEPT !.state = DEMOD_UNSYNCD]
                        ELSE start
              ELSE [cur EXCEPT !.state = DEMOD_UNSYNCD]
         [] d.state = DEMOD_AWAITING_START_BIT ->
              IF v > 0
              THEN IF d.posCount + 1 > 3 * 2
                   THEN IF d.bitCount = 0 /\ d.len = 0
                        THEN [cur EXCEPT !.posCount = d.posCount + 1, !.ret = TRUE]
                        ELSE [cur EXCEPT !.posCount = d.posCount + 1,
                                         !.state = DEMOD_UNSYNCD]
                   ELSE [cur EXCEPT !.posCount = d.posCount + 1]
              ELSE start
         [] d.state = WAIT_FOR_RISING_EDGE_OF_SOF ->
              IF v > 0
              THEN IF d.posCount + 1 < 9 * 2
                   THEN [cur EXCEPT !.posCount = d.posCount + 1,
                                    !.state = DEMOD_UNSYNCD]
                   ELSE [cur EXCEPT !.posCount = 0, !.bitCount = 0, !.len = 0,
                                    !.state = DEMOD_AWAITING_START_BIT]
              ELSE IF d.posCount + 1 > 12 * 2
                   THEN [cur EXCEPT !.posCount = d.posCount + 1,
                                    !.state = DEMOD_UNSYNCD]
                   ELSE [cur EXCEPT !.posCount = d.posCount + 1]
         [] d.state = DEMOD_RECEIVING_DATA ->
              IF d.posCount = 0
              THEN [cur EXCEPT !.thisBit = v, !.posCount = 1]
              ELSE LET tb == d.thisBit + v
                       sr == (d.shiftReg \div 2) + (IF tb > 0 THEN 512 ELSE 0)
                       bc == (d.bitCount + 1) % 65536
                       nxt == [cur EXCEPT !.thisBit = tb, !.shiftReg = sr, !.bitCount = bc]
                       resync == [nxt EXCEPT !.bitCount = 0, !.len = 0,
                                             !.state = WAIT_FOR_RISING_EDGE_OF_SOF]
                   IN IF bc # 10 THEN [nxt EXCEPT !.posCount = 0]
                      ELSE IF sr \div 512 % 2 = 1 /\ sr % 2 = 0
                      THEN [nxt EXCEPT !.output = UartStore(d.output, d.len,
                                                            (sr \div 2) % 256),
                                       !.len = (d.len + 1) % 65536,
                                       !.behind = d.len >= d.max_len,
                                       !.bitCount = 0,
                                       !.state = DEMOD_AWAITING_START_BIT,
                                       !.posCount = 0]
                      ELSE IF sr = 0
                      THEN IF d.len > 0
                           THEN [nxt EXCEPT !.ret = TRUE]
                           ELSE [resync EXCEPT !.posCount = 10 * 2]
                      ELSE IF Amplitude(ci, cq) < SUBCARRIER_DETECT_THRESHOLD
                              /\ d.len > 0
                      THEN [nxt EXCEPT !.state = DEMOD_UNSYNCD, !.ret = TRUE]
                      ELSE resync

\* the static Demod
DemodNow ==
    [state |-> Demod_state, bitCount |-> Demod_bitCount, posCount |-> Demod_posCount,
     thisBit |-> Demod_thisBit, shiftReg |-> Demod_shiftReg, output |-> Demod_output,
     len |-> Demod_len, sumI |-> Demod_sumI, sumQ |-> Demod_sumQ,
     max_len |-> Demod_max_len, ret |-> FALSE, behind |-> FALSE]

\* Handle14443bSamplesFromTag(ci, cq): the new Demod and the value returned
DemodStep(ci, cq) == DemodStepOn(DemodNow, ci, cq)

\* one call of Handle14443bSamplesFromTag. A store outside the buffer is
\* undefined: the byte lands in the memory behind it and the call goes on, or
\* the store stops the run (a fault of the memory system, a checked build)
Handle14443bSamplesFromTag(ci, cq) ==
    LET r == DemodStep(ci, cq)
    IN \/ /\ Demod_state' = r.state
          /\ Demod_bitCount' = r.bitCount
          /\ Demod_posCount' = r.posCount
          /\ Demod_thisBit' = r.thisBit
          /\ Demod_shiftReg' = r.shiftReg
          /\ Demod_output' = r.output
          /\ Demod_len' = r.len
          /\ Demod_sumI' = r.sumI
          /\ Demod_sumQ' = r.sumQ
          /\ storeFault' = FALSE
       \/ /\ r.behind
          /\ storeFault' = TRUE
          /\ UNCHANGED <<Demod_state, Demod_bitCount, Demod_posCount, Demod_thisBit,
                         Demod_shiftReg, Demod_output, Demod_len, Demod_sumI,
                         Demod_sumQ>>

\* SSP_CLK ticks between two samples: two samples per ETU of 32 ticks
TicksPerSample == 16

\* samples of the subcarrier: reference phase, inverted phase, no subcarrier
SampleOne == <<20, 0>>
SampleZero == <<0 - 20, 0>>
SampleNone == <<0, 0>>

\* n samples s
Rep(s, n) == [i \in 1..n |-> s]

\* a tag frame on the line: TR1 of subcarrier, then SOF, characters and EOF
\* with two samples per bit, then subcarrier again
TagSamples(bytes) ==
    LET bits == CodeIso14443bAsReader(bytes, Len(bytes), TRUE)
    IN Rep(SampleOne, 12)
       \o [i \in 1..(2 * Len(bits)) |->
              IF bits[(i + 1) \div 2] = 1 THEN SampleOne ELSE SampleZero]
       \o Rep(SampleOne, 2)

\* longest stretch of unmodulated subcarrier on the line, in samples
MaxCarrier == 300

\* what the DMA delivers before it falls silent: nothing, a burst too short to
\* train on, unmodulated subcarrier, the ATTRIB answer, an ATQB-like frame of
\* 7 bytes, the ATQB of 14 bytes
GetStreams ==
    {<<>>, Rep(SampleOne, 5), Rep(SampleOne, 30), Rep(SampleOne, MaxCarrier),
     TagSamples(respOK), TagSamples(WithCrc(<<80, 1, 2, 3, 4>>)),
     TagSamples(defaultATQB)}

\* a tag that keeps sending a character whose stop bit is low: TR1 and the low
\* phase of the SOF, its rising edge, then again and again a low start bit,
\* one high data bit, eight low bits, a low phase of 16 samples and a rising
\* edge
GarbledChar ==
    Rep(SampleZero, 2) \o Rep(SampleOne, 2) \o Rep(SampleZero, 32) \o Rep(SampleOne, 1)

GarbledSamples ==
    Rep(SampleOne, 12) \o Rep(SampleZero, 20) \o Rep(SampleOne, 1) \o GarbledChar

\* logical bits on the subcarrier, two samples per bit
BitSamples(bits) ==
    [i \in 1..(2 * Len(bits)) |-> IF bits[(i + 1) \div 2] = 1 THEN SampleOne ELSE SampleZero]

\* a tag that breaks off after the first character of its answer, keeps the
\* subcarrier on for 4 ETU and then sends the whole answer again
RestartedSamples ==
    Rep(SampleOne, 12) \o BitSamples(CharBits(SofBits(<<>>), 80)) \o Rep(SampleOne, 8)
        \o TagSamples(respOK)

\* the lines Get14443bAnswerFromTag listens to: period is the number of
\* samples at the end of the stream that repeat for ever, 0 when silence follows
GetLines ==
    {[samples |-> s, period |-> 0] : s \in GetStreams}
        \cup {[samples |-> GarbledSamples, period |-> Len(GarbledChar)],
              [samples |-> RestartedSamples, period |-> 0]}

\* timeouts in SSP_CLK ticks
GetTimeouts == {64, 4096}

\* sizes of the caller's buffer
GetMaxLens == {3, MAX_FRAME_SIZE}

\* GetCountSspClk() at the first sample: the counter was just started, or a
\* transmission went before
GetFirstTicks == {7, 6007}

\* samples a call of Get14443bAnswerFromTag is followed for: two turns of the
\* DMA ring and a few more
MaxSamples == 520

\* the sample the DMA delivers as number k
SampleAt(k) == IF k <= Len(gStream) THEN gStream[k] ELSE SampleNone

\* the place in gStream of the sample after place p
NextPos(p) ==
    IF p < Len(gStream) THEN p + 1
    ELSE IF gPeriod > 0 THEN Len(gStream) - gPeriod + 1
    ELSE Len(gStream) + 1

\* "& 0xfffffff0"
Mask16(t) == t - (t % 16)

\* GetCountSspClk() once sample number n has been handled: the counter
\* advances TicksPerSample ticks from one sample to the next
SspClkAt(start, n) == start + TicksPerSample * n

\* GetCountSspClkDelta(start) when the counter is at clock: the ticks since
\* start (ticks.c is outside this file)
GetCountSspClkDelta(clock, start) == clock - start

\* "GetCountSspClkDelta(dma_start_time) > timeout
\*  && Demod.state < DEMOD_PHASE_REF_TRAINING"
TimedOut(elapsed, st) ==
    elapsed > gTimeout /\ DemodOrd(st) < DemodOrd(DEMOD_PHASE_REF_TRAINING)

\* Get14443bAnswerFromTag(response, max_len, timeout, ...) up to the loop
GetAnswerCall(line, max_len, timeout, tick) ==
    /\ gPc = "idle"
    /\ gPc' = "loop"
    /\ gStream' = line.samples
    /\ gPeriod' = line.period
    /\ gPos' = 0
    /\ gUpTo' = 0
    /\ gFirstTick' = tick
    /\ gDmaStart' = 0
    /\ gTimeout' = timeout
    /\ gSamples' = 0
    /\ gElapsed' = 0
    /\ gEofTime' = 0
    /\ gRet' = "none"
    /\ gTxClock' = 0
    /\ gStartTime' = 0
    /\ gMark' = [seen |-> <<>>, again |-> FALSE]
    /\ storeFault' = FALSE
    /\ Demod_max_len' = max_len
    /\ Demod_state' = DEMOD_UNSYNCD
    /\ Demod_bitCount' = 0
    /\ Demod_posCount' = 0
    /\ Demod_thisBit' = 0
    /\ Demod_shiftReg' = 0
    /\ Demod_len' = 0
    /\ Demod_sumI' = 0
    /\ Demod_sumQ' = 0
    /\ UNCHANGED Demod_output

\* the Demod of the static Demod, as gMark keeps it
DemodKept(d) == [d EXCEPT !.output = Take(d.output, d.len)]

\* one turn of the loop that found a sample, and the return after a break;
\* button: SSC_SR has ENDRX and BUTTON_PRESS() holds when the ring wraps.
GetAnswerSample(button) ==
    /\ gPc = "loop"
    /\ gSamples < MaxSamples
    /\ gSamples' = gSamples + 1
    /\ gPos' = NextPos(gPos)
    /\ gUpTo' = (gUpTo + 1) % DMA_BUFFER_SIZE
    /\ gDmaStart' = IF gSamples = 0 THEN Mask16(gFirstTick) ELSE gDmaStart
    /\ LET wrapped == (gUpTo + 1) % DMA_BUFFER_SIZE = 0
           sample == SampleAt(NextPos(gPos))
           r == DemodStep(sample[1], sample[2])
           dma_start_time == IF gSamples = 0 THEN Mask16(gFirstTick) ELSE gDmaStart
           now == GetCountSspClkDelta(SspClkAt(dma_start_time, gSamples + 1),
                                      dma_start_time)
           lap == gPeriod > 0 /\ NextPos(gPos) = Len(gStream)
       IN /\ button => wrapped
          /\ IF button
             THEN /\ gPc' = "done"
                  /\ gRet' = PM3_SUCCESS
                  /\ UNCHANGED <<gElapsed, gEofTime, gMark, demodVars>>
             ELSE /\ Handle14443bSamplesFromTag(sample[1], sample[2])
                  /\ UNCHANGED Demod_max_len
                  /\ IF storeFault'
                     THEN /\ gPc' = "fault"
                          /\ UNCHANGED <<gElapsed, gEofTime, gRet, gMark>>
                     ELSE /\ gElapsed' = now
                          /\ gMark' = IF lap
                                      THEN [seen |-> <<DemodKept(r)>>,
                                            again |-> gMark.seen = <<DemodKept(r)>>]
                                      ELSE gMark
                          /\ IF r.ret
                             THEN /\ gEofTime' = now - DELAY_TAG_TO_ARM
                                  /\ gRet' = IF r.len > Demod_max_len THEN PM3_EOVFLOW
                                             ELSE PM3_SUCCESS
                                  /\ gPc' = "done"
                             ELSE IF TimedOut(now, r.state)
                             THEN /\ gRet' = PM3_ETIMEOUT
                                  /\ gPc' = "done"
                                  /\ UNCHANGED gEofTime
                             ELSE /\ gPc' = "loop"
                                  /\ UNCHANGED <<gEofTime, gRet>>
    /\ UNCHANGED <<gStream, gPeriod, gFirstTick, gTimeout, gTxClock, gStartTime>>

\* the caller once Get14443bAnswerFromTag has returned with bytes stored
\* behind the buffer: what lay there (its locals, the saved registers, a
\* stack guard) was overwritten, and the run may stop at the caller's return
ReturnBehindBuffer ==
    /\ gPc = "done"
    /\ Demod_len > Demod_max_len
    /\ gPc' = "fault"
    /\ storeFault' = TRUE
    /\ UNCHANGED <<gStream, gPeriod, gPos, gUpTo, gFirstTick, gDmaStart, gTimeout,
                   gSamples, gElapsed, gEofTime, gRet, gTxClock, gStartTime, gMark,
                   Demod_state, Demod_bitCount, Demod_posCount, Demod_thisBit,
                   Demod_shiftReg, Demod_max_len, Demod_output, Demod_len, Demod_sumI,
                   Demod_sumQ>>

\* 14 and 16 ETU in SSP_CLK ticks
ISO14B_TR2 == 448

ISO14B_TR0 == 512

\* ticks that pass between the read of the counter for *eof_time and the read
\* in TransmitFor14443b_AsReader: the checks on the answer and the coding of
\* the next command
TxDelays == {48, 208, 1008}

\* the counter when Get14443bAnswerFromTag read it last
SspClkAtReturn == gDmaStart + gElapsed

\* Get14443bAnswerFromTag left the loop on a complete frame
FrameReceived == gRet \in {PM3_SUCCESS, PM3_EOVFLOW} /\ gEofTime > 0

\* "if (GetCountSspClk() > *start_time) *start_time = (GetCountSspClk() + 32)
\*  & 0xfffffff0;"
MissedSlot(clock, start) == IF clock > start THEN Mask16(clock + 32) ELSE start

\* TransmitFor14443b_AsReader(start_time): the tick at which the modulation
\* starts, the counter being clock when it is compared
TransmitStart(start_time, clock) ==
    LET floor == IF start_time < ISO14B_TR0 THEN ISO14B_TR0 ELSE start_time
    IN  MissedSlot(clock, Mask16(floor))

\* "start_time = eof_time + ISO14B_TR2; CodeAndTransmit14443bAsReader(...)" of
\* a flow whose Get14443bAnswerFromTag returned PM3_SUCCESS
TransmitNext(delay) ==
    /\ gPc = "done"
    /\ gRet = PM3_SUCCESS
    /\ gPc' = "sent"
    /\ gTxClock' = SspClkAtReturn + delay
    /\ gStartTime' = TransmitStart(gEofTime + ISO14B_TR2, SspClkAtReturn + delay)
    /\ UNCHANGED <<gStream, gPeriod, gPos, gUpTo, gFirstTick, gDmaStart, gTimeout,
                   gSamples, gElapsed, gEofTime, gRet, gMark, demodVars>>

-----------------------------------------------------------------------------
(* Specifications.                                                         *)

CallInit == callOp = "none" /\ callArg = 0 /\ callOut = FALSE

\* SniffIso14443b not called
SniffInit ==
    /\ snPc = "idle"
    /\ snLine = "none"
    /\ snRead = 0
    /\ snFirstTick = 0
    /\ snDmaStart = 0
    /\ snSamples = 0
    /\ snUpTo = 0
    /\ tag_is_active = FALSE
    /\ reader_is_active = FALSE
    /\ expect_tag_answer = FALSE
    /\ snTagFed = FALSE
    /\ snReaderFed = FALSE
    /\ snTrace = <<>>

\* the device after start-up: field off, nothing sent
FieldInit == fieldOn = FALSE /\ fieldTx = "none"

\* FpgaSetupSscDma(dma->buf, DMA_BUFFER_SIZE) done, upTo = dma->buf, samples = 0
RingInit ==
    /\ PDC_RPR = 0
    /\ PDC_RCR = DMA_BUFFER_SIZE
    /\ PDC_RNCR = DMA_BUFFER_SIZE
    /\ SSC_ENDRX = FALSE
    /\ pdcWords = 0
    /\ pdcOverrun = FALSE
    /\ rPc = "poll"
    /\ rUpTo = 0
    /\ rSamples = 0
    /\ rGot = [i |-> 0, q |-> 0]

RestInit == DispIdle /\ UartInit /\ DemodInit /\ CallInit /\ SniffInit /\ FieldInit /\ RingInit

SimSpecInit == SimInit /\ SessInit /\ ApduInit /\ SelInit /\ RestInit

Init == SimOff /\ SessInit /\ ApduInit /\ SelInit /\ RestInit

\* the tag simulator
\* what the simulator leaves alone: it stores Uart.byteCntMax through the
\* Uart14bInit of GetIso14443bCommandFromReader
simRest == <<s_iso14b_pcb_blocknum, s_iso14b_fwt, s_iso14b_timeout, s_field_on, apduVars,
             selVars, restVars>>

SimNext ==
    \/ /\ SimNoField
       /\ UNCHANGED simRest
    \/ /\ \E cmd \in SimFrames : SimFrame(cmd)
       /\ UNCHANGED simRest
    \/ /\ SimStop
       /\ UNCHANGED simRest

SimSpec == SimSpecInit /\ [][SimNext]_vars

\* the reader's layer-4 session
Next ==
    \/ /\ \E i \in ApduInputs : ApduCall(i.msg, i.chaining)
       /\ UNCHANGED restVars
    \/ /\ \E o \in ApduAnswers : ApduRx(o)
       /\ UNCHANGED restVars
    \/ /\ \E o \in ApduAnswers : ApduWtxRx(o)
       /\ UNCHANGED restVars
    \/ /\ \E o1 \in AtqbAnswers, o2 \in AttribAnswers : SelectCard(o1, o2)
       /\ UNCHANGED restVars
    \/ /\ Setup
       /\ UNCHANGED restVars
    \/ /\ \E t \in TimeoutArgs : SetTimeoutCmd(t)
       /\ UNCHANGED restVars

Spec == Init /\ [][Next]_vars

\* one call of SendRawCommand14443B, on the session as loaded or as an earlier
\* call with ISO14B_CONNECT left it
DispatchInit ==
    /\ SimOff
    /\ (SessInit \/ SessConnected)
    /\ ApduInit
    /\ SelInit
    /\ DispEntry
    /\ UartInit
    /\ DemodInit
    /\ CallInit
    /\ SniffInit
    /\ FieldInit
    /\ RingInit

DispatchNext ==
    \/ /\ DTriggerOn
       /\ UNCHANGED sampleVars
    \/ /\ DConnect
       /\ UNCHANGED sampleVars
    \/ /\ \E t \in TimeoutArgs : DSetTimeout(t)
       /\ UNCHANGED sampleVars
    \/ /\ DClearTrace
       /\ UNCHANGED sampleVars
    \/ /\ \E o1 \in DispAtqbAnswers, o2 \in DispAttribAnswers : DSelectStd(o1, o2)
       /\ UNCHANGED sampleVars
    \/ /\ \E k \in 1..4 : \E a \in OtherScripts(k) : DSelectOther(k, a)
       /\ UNCHANGED sampleVars
    \/ /\ DFieldCheck
       /\ UNCHANGED sampleVars
    \/ /\ \E msg \in DispApduFrames : DApduCall(msg)
       /\ UNCHANGED sampleVars
    \/ /\ \E o \in DispApduAnswers : DApduRx(o)
       /\ UNCHANGED sampleVars
    \/ /\ \E o \in DispApduAnswers : DApduWtxRx(o)
       /\ UNCHANGED sampleVars
    \/ /\ \E tear \in BOOLEAN : DApduReply(tear)
       /\ UNCHANGED sampleVars
    \/ /\ \E raw \in RawFrames, tear \in BOOLEAN : DRaw(raw, tear)
       /\ UNCHANGED sampleVars
    \/ /\ \E o \in DispRawAnswers : DRawRx(o)
       /\ UNCHANGED sampleVars
    \/ /\ DTriggerOff
       /\ UNCHANGED sampleVars
    \/ /\ DDisconnect
       /\ UNCHANGED sampleVars

DispatchSpec == DispatchInit /\ [][DispatchNext]_vars

\* the reader's encoder feeding the simulator's UART, or a run of zeros
UartSpecInit == SimOff /\ UartListening /\ ApduInit /\ SelInit /\ RestInit

UartNext ==
    \/ /\ \E cmd \in UartCmds, framing \in BOOLEAN : UEncode(cmd, framing)
       /\ UNCHANGED <<simVars, sessVars, apduVars, selVars, dispVars, demodVars, getVars,
                    callVars, sniffVars, fieldVars, ringVars>>
    \/ /\ \E n \in 1..MaxZeros : USofRun(n)
       /\ UNCHANGED <<simVars, sessVars, apduVars, selVars, dispVars, demodVars, getVars,
                    callVars, sniffVars, fieldVars, ringVars>>
    \/ /\ USample
       /\ UNCHANGED <<simVars, sessVars, apduVars, selVars, dispVars, demodVars, getVars,
                    callVars, sniffVars, fieldVars, ringVars>>

UartSpec == UartSpecInit /\ [][UartNext]_vars

\* one call of Get14443bAnswerFromTag on a stream of samples
GetAnswerNext ==
    \/ /\ \E line \in GetLines, max_len \in GetMaxLens, timeout \in GetTimeouts,
             tick \in GetFirstTicks :
              GetAnswerCall(line, max_len, timeout, tick)
       /\ UNCHANGED <<simVars, sessVars, apduVars, selVars, dispVars, uartVars, callVars,
                      sniffVars, fieldVars, ringVars>>
    \/ /\ \E button \in BOOLEAN : GetAnswerSample(button)
       /\ UNCHANGED <<simVars, sessVars, apduVars, selVars, dispVars, uartVars, callVars,
                      sniffVars, fieldVars, ringVars>>
    \/ /\ \E delay \in TxDelays : TransmitNext(delay)
       /\ UNCHANGED <<simVars, sessVars, apduVars, selVars, dispVars, uartVars, callVars,
                      sniffVars, fieldVars, ringVars>>
    \/ /\ ReturnBehindBuffer
       /\ UNCHANGED <<simVars, sessVars, apduVars, selVars, dispVars, uartVars, callVars,
                      sniffVars, fieldVars, ringVars>>

GetAnswerSpec == Init /\ [][GetAnswerNext]_vars

\* iso14b_set_fwt(fwt) for an FWI the ATQB can carry
SetFwtCall(fwt) ==
    /\ callOp' = "iso14b_set_fwt"
    /\ callArg' = fwt
    /\ s_iso14b_fwt' = fwt
    /\ s_iso14b_timeout' = FwtTimeout(fwt)
    /\ UNCHANGED <<s_iso14b_pcb_blocknum, s_field_on, Uart_byteCntMax, callOut>>

\* iso14b_set_timeout(timeout_etu)
SetTimeoutCall(timeout_etu) ==
    /\ callOp' = "iso14b_set_timeout"
    /\ callArg' = timeout_etu
    /\ s_iso14b_timeout' = SetTimeout(timeout_etu)
    /\ UNCHANGED <<s_iso14b_pcb_blocknum, s_iso14b_fwt, s_field_on, Uart_byteCntMax,
                   callOut>>

\* the FWIs iso14443b_select_card passes on
FwiArgs == 0..14

\* timeouts in ETU a host can send with ISO14B_SET_TIMEOUT
TimeoutEtus ==
    {0, 1, 128, 512, 524284, 524285, 524286, 16777120, 134217727, 134217728,
     134217729, 2147483647}

\* the setters of the session's timing, called in any order
TimingNext ==
    \/ /\ \E fwt \in FwiArgs : SetFwtCall(fwt)
       /\ UNCHANGED <<simVars, apduVars, selVars, dispVars, uartVars, demodVars, getVars,
                      sniffVars, fieldVars, ringVars>>
    \/ /\ \E timeout_etu \in TimeoutEtus : SetTimeoutCall(timeout_etu)
       /\ UNCHANGED <<simVars, apduVars, selVars, dispVars, uartVars, demodVars, getVars,
                      sniffVars, fieldVars, ringVars>>

TimingSpec == Init /\ [][TimingNext]_vars

\* longest byte string given to AddCrc14B
MaxCrcLen == 3

\* the bytes of those strings
CrcBytes == {0, 1, 80, 255}

\* the frames that arrive, of any length
CrcStrings == UNION {[1..n -> CrcBytes] : n \in 0..MaxCrcLen}

\* buf with bit k of its bit string inverted, bit 0 the lowest of buf[0]
FlipBit(buf, k) == Store(buf, k \div 8, Flip(At(buf, k \div 8), Pow2(k % 8)))

\* "AddCrc14B(b, len)" and check_crc(CRC_14443_B, b, len + 2) on the result, as
\* iso14443b_apdu frames a message and tests an answer; b of any length, the
\* empty string included
AddCrcCall(b) ==
    /\ callOp = "none"
    /\ callOp' = "AddCrc14B"
    /\ callArg' = AddCrc14B(b, Len(b))
    /\ callOut' = CheckCrc14B(AddCrc14B(b, Len(b)), Len(b) + 2)

\* one bit of the frame is inverted on the air; check_crc on what arrives
FlipCall(k) ==
    /\ callOp = "AddCrc14B"
    /\ k < 8 * Len(callArg)
    /\ callOp' = "flip"
    /\ callArg' = FlipBit(callArg, k)
    /\ callOut' = CheckCrc14B(FlipBit(callArg, k), Len(callArg))

\* check_crc on a frame as it arrives, whatever made it
CheckCall(frame) ==
    /\ callOp = "none"
    /\ callOp' = "check_crc"
    /\ callArg' = frame
    /\ callOut' = CheckCrc14B(frame, Len(frame))

\* one frame is followed from its making to its check
CrcNext ==
    \/ /\ \E b \in CrcStrings : AddCrcCall(b)
       /\ UNCHANGED <<simVars, sessVars, apduVars, selVars, dispVars, uartVars,
                      demodVars, getVars, sniffVars, fieldVars, ringVars>>
    \/ /\ \E k \in 0..(8 * (MaxCrcLen + 2) - 1) : FlipCall(k)
       /\ UNCHANGED <<simVars, sessVars, apduVars, selVars, dispVars, uartVars,
                      demodVars, getVars, sniffVars, fieldVars, ringVars>>
    \/ /\ \E frame \in CrcStrings : CheckCall(frame)
       /\ UNCHANGED <<simVars, sessVars, apduVars, selVars, dispVars, uartVars,
                      demodVars, getVars, sniffVars, fieldVars, ringVars>>

CrcSpec == Init /\ [][CrcNext]_vars

\* the same call while the DMA keeps delivering samples and nobody presses the
\* button: a turn of the loop that can be taken is taken
GetAnswerRuns ==
    /\ GetAnswerSample(FALSE)
    /\ UNCHANGED <<simVars, sessVars, apduVars, selVars, dispVars, uartVars, callVars,
                   sniffVars, fieldVars, ringVars>>

\* Uart14bReset(), as the sniffer calls it after a frame, and Uart14bInit()
UartResetCall ==
    /\ callOp' = "Uart14bReset"
    /\ callArg' = 0
    /\ Uart_state' = STATE_14B_UNSYNCD
    /\ Uart_shiftReg' = 0
    /\ Uart_bitCnt' = 0
    /\ Uart_byteCnt' = 0
    /\ Uart_byteCntMax' = MAX_FRAME_SIZE
    /\ Uart_posCnt' = 0
    /\ UNCHANGED <<Uart_output, uKind, uCmd, uBits, uFed, uTrues, uTrueAt, uAwaited,
                   callOut>>

\* iso14b_set_maxframesize(size), as iso14443b_select_card calls it
SetMaxFrameSizeCall(size) ==
    /\ callOp' = "iso14b_set_maxframesize"
    /\ callArg' = size
    /\ Uart_byteCntMax' = SetMaxFrameSize(size)
    /\ UNCHANGED <<uartVars, callOut>>

\* sizes iso14443b_select_card derives from atqb[5] >> 4: the smallest, the
\* largest and the one above the largest
FrameSizeArgs == {MaxFrameOf(code) : code \in {0, 8, 9}}

\* a command of 18 bytes, longer than the smallest frame size a card announces
LongCmd == [i \in 1..18 |-> i]

\* the frames a reader puts on the line
CapCmds == {cmdWUPB, LongCmd}

\* the reader UART on a line with one frame, the setters of Uart.byteCntMax
\* being called between two samples
UartCapNext ==
    \/ /\ \E cmd \in CapCmds : UEncode(cmd, TRUE)
       /\ UNCHANGED <<simVars, sessVars, apduVars, selVars, dispVars, demodVars, getVars,
                      callVars, sniffVars, fieldVars, ringVars>>
    \/ /\ USample
       /\ UNCHANGED <<simVars, sessVars, apduVars, selVars, dispVars, demodVars, getVars,
                      callVars, sniffVars, fieldVars, ringVars>>
    \/ /\ UartResetCall
       /\ UNCHANGED <<simVars, s_iso14b_pcb_blocknum, s_iso14b_fwt, s_iso14b_timeout,
                      s_field_on, apduVars, selVars, dispVars, demodVars, getVars,
                      sniffVars, fieldVars, ringVars>>
    \/ /\ \E size \in FrameSizeArgs : SetMaxFrameSizeCall(size)
       /\ UNCHANGED <<simVars, s_iso14b_pcb_blocknum, s_iso14b_fwt, s_iso14b_timeout,
                      s_field_on, apduVars, selVars, dispVars, demodVars, getVars,
                      sniffVars, fieldVars, ringVars>>

UartCapSpec == UartSpecInit /\ [][UartCapNext]_vars

\* samples handed to the demodulator one by one
MaxFeed == 13

\* strong on I in either phase, none, just above the threshold on both axes,
\* strong on Q, just not above the threshold
DemodSamples == {SampleOne, SampleZero, SampleNone, <<6, 6>>, <<0, 20>>, <<6, 4>>}

\* how many samples were handed over so far
Fed == IF callOp = "Handle14443bSamplesFromTag" THEN callArg.n ELSE 0

\* Handle14443bSamplesFromTag(ci, cq) on the Demod as it stands, outside
\* Get14443bAnswerFromTag (the sniffer calls it so)
DemodFeed(s) ==
    /\ gPc = "idle"
    /\ ~storeFault
    /\ Fed < MaxFeed
    /\ callOp' = "Handle14443bSamplesFromTag"
    /\ callArg' = [n |-> Fed + 1, ci |-> s[1], cq |-> s[2]]
    /\ callOut' = DemodStep(s[1], s[2]).ret
    /\ Handle14443bSamplesFromTag(s[1], s[2])
    /\ UNCHANGED Demod_max_len

\* the demodulator under arbitrary samples, or under the receive loop
DemodNext ==
    \/ /\ \E s \in DemodSamples : DemodFeed(s)
       /\ UNCHANGED <<simVars, sessVars, apduVars, selVars, dispVars, uartVars, getVars,
                      sniffVars, fieldVars, ringVars>>
    \/ /\ callOp = "none"
       /\ \E line \in GetLines, max_len \in GetMaxLens, timeout \in GetTimeouts,
             tick \in GetFirstTicks :
              GetAnswerCall(line, max_len, timeout, tick)
       /\ UNCHANGED <<simVars, sessVars, apduVars, selVars, dispVars, uartVars, callVars,
                      sniffVars, fieldVars, ringVars>>
    \/ GetAnswerRuns

DemodSpec == Init /\ [][DemodNext]_vars

GetAnswerLiveSpec ==
    Init /\ [][GetAnswerNext]_vars /\ WF_vars(GetAnswerRuns)

-----------------------------------------------------------------------------
(* SniffIso14443b.                                                         *)

\* the word of one DMA sample in sniff mode: the reader's bit in bit 0 of I and
\* of Q, the tag's subcarrier sample in the bits above
SniffWord(bit, tag) == <<2 * tag[1] + bit, 2 * tag[2] + bit>>

\* n words of a silent line: the reader's carrier unmodulated, no subcarrier
IdleWords(n) == Rep(SniffWord(1, SampleNone), n)

\* a reader frame on the line, two words (four UART samples) per bit
ReaderWords(cmd) ==
    LET bits == CodeIso14443bAsReader(cmd, Len(cmd), TRUE)
    IN [i \in 1..(2 * Len(bits)) |-> SniffWord(bits[(i + 1) \div 2], SampleNone)]

\* a tag frame on the line while the reader's carrier is unmodulated
TagWords(bytes) ==
    LET samples == TagSamples(bytes)
    IN [i \in 1..Len(samples) |-> SniffWord(1, samples[i])]

\* words of silence before the first frame on the line
SniffLead == 600

\* words of silence between a frame and the next
SniffGap == 4

\* WUPB answered by the ATQB after a long silence
SniffLineAnswered ==
    IdleWords(SniffLead) \o ReaderWords(cmdWUPB) \o IdleWords(SniffGap)
        \o TagWords(defaultATQB) \o IdleWords(SniffGap)

\* a tag answer nobody asked for, then WUPB answered twice
SniffLineUnasked ==
    IdleWords(SniffGap) \o TagWords(respOK) \o IdleWords(SniffGap)
        \o ReaderWords(cmdWUPB) \o IdleWords(SniffGap) \o TagWords(respOK)
        \o IdleWords(SniffGap) \o TagWords(respOK) \o IdleWords(SniffGap)

\* WUPB sent twice, then answered
SniffLineRepeated ==
    IdleWords(SniffGap) \o ReaderWords(cmdWUPB) \o IdleWords(SniffGap)
        \o ReaderWords(cmdWUPB) \o IdleWords(SniffGap) \o TagWords(respOK)
        \o IdleWords(SniffGap)

\* words of a tag frame before the reader starts to talk over it
SniffOverlap == 60

\* the reader's frame rd laid over the tag's frame tg from word off on
Collide(tg, rd, off) ==
    [i \in 1..Max2(Len(tg), off + Len(rd)) |->
        SniffWord(IF i > off /\ i <= off + Len(rd) THEN rd[i - off][1] % 2 ELSE 1,
                  IF i <= Len(tg) THEN <<tg[i][1] \div 2, tg[i][2] \div 2>>
                  ELSE SampleNone)]

\* WUPB, and a second WUPB sent while the tag is still answering the first
SniffLineCollision ==
    IdleWords(SniffGap) \o ReaderWords(cmdWUPB) \o IdleWords(SniffGap)
        \o Collide(TagWords(respOK), ReaderWords(cmdWUPB), SniffOverlap)
        \o IdleWords(SniffGap)

\* WUPB answered by the ATQB right after the sniffer started: the frame ends
\* less than Demod.len * 1024 + 512 ticks after the first word
SniffLineEarly ==
    IdleWords(SniffGap) \o ReaderWords(cmdWUPB) \o IdleWords(SniffGap)
        \o TagWords(defaultATQB) \o IdleWords(SniffGap)

\* bytes of a tag frame longer than dm_buf[MAX_FRAME_SIZE]
SniffLongLen == 260

\* byte i of the long frame, from 1: the bytes that go behind dm_buf are F9, 00,
\* 07, 0E, ...
SniffLongByte(i) == (7 * (i + 254)) % 256

\* WUPB answered by a frame of SniffLongLen bytes, then WUPB again
SniffLineLong ==
    IdleWords(SniffGap) \o ReaderWords(cmdWUPB) \o IdleWords(SniffGap)
        \o TagWords([i \in 1..SniffLongLen |-> SniffLongByte(i)]) \o IdleWords(SniffGap)
        \o ReaderWords(cmdWUPB) \o IdleWords(SniffGap)

\* a line that stays silent
SniffLineIdle == IdleWords(SniffLead)

\* the lines sniffed, by name
SniffLineIds == {"answered", "unasked", "repeated", "collision", "early", "long", "idle"}

\* the words of the line named id
SniffLineOf(id) ==
    CASE id = "answered" -> SniffLineAnswered
      [] id = "unasked" -> SniffLineUnasked
      [] id = "repeated" -> SniffLineRepeated
      [] id = "collision" -> SniffLineCollision
      [] id = "early" -> SniffLineEarly
      [] id = "long" -> SniffLineLong
      [] id = "idle" -> SniffLineIdle
      [] OTHER -> <<>>

\* the words the DMA delivers: I in the high byte, Q in the low
snStream == SniffLineOf(snLine)

\* GetCountSspClk() at the first word, StartCountSspClk() having just run
SniffFirstTicks == {7, 40}

\* Uart14bReset()
UartAfterReset(u) ==
    [u EXCEPT !.state = STATE_14B_UNSYNCD, !.shiftReg = 0, !.bitCnt = 0,
              !.byteCnt = 0, !.posCnt = 0, !.ret = FALSE]

\* Demod14bReset()
DemodAfterReset(d) ==
    [d EXCEPT !.state = DEMOD_UNSYNCD, !.bitCount = 0, !.posCount = 0, !.thisBit = 0,
              !.shiftReg = 0, !.len = 0, !.sumI = 0, !.sumQ = 0, !.ret = FALSE]

\* a uint32_t as its two 16-bit halves: the values reach 2^32 - 1, past the
\* integers of the model checker. U32(x) is x modulo 2^32, x of either sign
U32(x) == [hi |-> (x \div 65536) % 65536, lo |-> x % 65536]

\* "v * 4" on a uint32_t
U32Times4(v) ==
    [hi |-> (v.hi * 4 + (v.lo * 4) \div 65536) % 65536, lo |-> (v.lo * 4) % 65536]

\* LogTrace(btBytes, iLen, timestamp_start, timestamp_end, NULL, reader2tag)
TraceEntry(bytes, n, timestamp_start, timestamp_end, reader2tag) ==
    [data |-> Take(bytes, n), len |-> n, sof |-> timestamp_start,
     eof |-> timestamp_end, reader |-> reader2tag]

\* sof_time of a reader frame, a uint32_t
ReaderSofTime(eof_time, byteCnt) == U32(eof_time - byteCnt * 1 - 32 * 16 - 16 * 16)

\* sof_time of a tag frame, a uint32_t: it wraps when the frame ended less than
\* Demod.len * 1024 + 512 ticks after the first word
TagSofTime(eof_time, n) == U32(eof_time - n * 8 * 8 * 16 - 32 * 16 - 0)

\* "if (Handle14443bSampleFromReader(bit))" with its body, on the sniffer's
\* state s; eof_time as the call site computes it
SniffReaderBit(s, bit, eof_time) ==
    LET r == UartStepOn(s.uart, s.byteCntMax, bit)
    IN IF r.ret
       THEN [s EXCEPT !.uart = UartAfterReset(r),
                      !.byteCntMax = MAX_FRAME_SIZE,
                      !.demod = DemodAfterReset(s.demod),
                      !.expect = TRUE,
                      !.trace = IF r.byteCnt > 0
                                THEN Append(s.trace,
                                            TraceEntry(r.output, r.byteCnt,
                                                       U32Times4(ReaderSofTime(eof_time,
                                                                               r.byteCnt)),
                                                       U32Times4(U32(eof_time)), TRUE))
                                ELSE s.trace]
       ELSE [s EXCEPT !.uart = r]

\* the body of "if (tag_is_active == false)": both bits of the word go to the
\* reader UART, then reader_is_active is derived from Uart.state
SniffReaderBits(s, ci, cq, now) ==
    LET s1 == SniffReaderBit(s, ci % 2, now + 8)
        s2 == SniffReaderBit(s1, cq % 2, now + 16)
    IN [s2 EXCEPT !.rfed = TRUE,
                  !.reader_active =
                      s2.uart.state \in {STATE_14B_AWAITING_START_BIT,
                                         STATE_14B_RECEIVING_DATA}]

\* "if (tag_is_active == false)" with its body
SniffReader(s, ci, cq, now) ==
    IF s.tag_active = FALSE THEN SniffReaderBits(s, ci, cq, now) ELSE s

\* mutant of SniffGate: the tag is listened to whenever the reader is silent
SniffGateUnexpected(reader_active, expect) == reader_active = FALSE

\* "if (reader_is_active == false && expect_tag_answer)"
SniffGate(reader_active, expect) == reader_active = FALSE /\ expect

\* the entry LogTrace(Demod.output, Demod.len, ...) makes of the frame in the
\* Demod r. Of a frame longer than dm_buf the bytes past the buffer are read
\* from the memory behind it, the locals of SniffIso14443b as they are by
\* then: data holds the bytes inside dm_buf only, len the length logged
TagEntry(r, sof, eof) ==
    [TraceEntry(r.output, r.len, sof, eof, FALSE)
        EXCEPT !.data = Take(r.output, Min2(r.len, r.max_len))]

\* the tag's half of a turn with its body; now is dma_start_time + samples * 16
\* as the two locals are in this turn
SniffTag(s, ci, cq, now) ==
    IF SniffGate(s.reader_active, s.expect)
    THEN LET r == DemodStepOn(s.demod, ci \div 2, cq \div 2)
         IN IF r.ret
            THEN [s EXCEPT !.uart = UartAfterReset(s.uart),
                           !.byteCntMax = MAX_FRAME_SIZE,
                           !.demod = DemodAfterReset(r),
                           !.expect = FALSE,
                           !.tag_active = FALSE,
                           !.fed = TRUE,
                           !.trace = Append(s.trace,
                                            TagEntry(r, U32Times4(TagSofTime(now, r.len)),
                                                     U32Times4(U32(now))))]
            ELSE [s EXCEPT !.demod = r,
                           !.fed = TRUE,
                           !.tag_active = DemodOrd(r.state)
                                              > DemodOrd(WAIT_FOR_RISING_EDGE_OF_SOF)]
    ELSE s

\* SniffIso14443b() up to the loop
SniffStart(line, tick) ==
    /\ snPc = "idle"
    /\ snPc' = "run"
    /\ snLine' = line
    /\ snRead' = 0
    /\ snFirstTick' = tick
    /\ snDmaStart' = 0
    /\ snSamples' = 0
    /\ snUpTo' = 0
    /\ tag_is_active' = FALSE
    /\ reader_is_active' = FALSE
    /\ expect_tag_answer' = FALSE
    /\ snTagFed' = FALSE
    /\ snReaderFed' = FALSE
    /\ snTrace' = <<>>
    /\ Demod_max_len' = MAX_FRAME_SIZE
    /\ Demod_state' = DEMOD_UNSYNCD
    /\ Demod_bitCount' = 0
    /\ Demod_posCount' = 0
    /\ Demod_thisBit' = 0
    /\ Demod_shiftReg' = 0
    /\ Demod_len' = 0
    /\ Demod_sumI' = 0
    /\ Demod_sumQ' = 0
    /\ Demod_output' = <<>>
    /\ storeFault' = FALSE
    /\ Uart_state' = STATE_14B_UNSYNCD
    /\ Uart_shiftReg' = 0
    /\ Uart_bitCnt' = 0
    /\ Uart_byteCnt' = 0
    /\ Uart_byteCntMax' = MAX_FRAME_SIZE
    /\ Uart_posCnt' = 0
    /\ Uart_output' = <<>>
    /\ UNCHANGED <<uKind, uCmd, uBits, uFed, uTrues, uTrueAt, uAwaited>>

\* what a byte stored behind dm_buf[MAX_FRAME_SIZE] lands on. dm_buf is a local
\* of SniffIso14443b and the store is undefined: where the byte goes depends
\* on the frame the build lays out. "none": on nothing the loop reads again
\* (padding, ua_buf, a local kept in a register); a local of the loop, which
\* then goes on with the byte in it; "fault": the store or a later turn stops
\* the run, or it lands on the pointers upTo or dma and the loop no longer
\* reads the line
SniffHits ==
    {"none", "tag_is_active", "reader_is_active", "expect_tag_answer", "dma_start_time",
     "samples", "fault"}

\* the int x with its low byte replaced by b; of the bytes of dma_start_time
\* and samples the low one is followed
LowByteSet(x, b) == x - (x % 256) + b

\* one turn of the loop that found a word; button: SSC_SR has ENDRX and
\* BUTTON_PRESS() holds when the ring wraps; hit: what the byte lands on when
\* Handle14443bSamplesFromTag stores one behind dm_buf in this turn. The
\* store comes before "tag_is_active = (Demod.state > ...)", which writes
\* tag_is_active again; the other locals keep the byte. Once a byte went
\* behind dm_buf any later turn may be the one where the run stops
SniffTurn(button, hit, word) ==
    LET samples == snSamples + 1
        dma_start_time == IF samples = 1
                          THEN Mask16(SspClkAt(snFirstTick, snRead))
                          ELSE snDmaStart
        now == dma_start_time + samples * 16
        wrapped == (snUpTo + 1) % DMA_BUFFER_SIZE = 0
        s0 == [uart |-> UartNow, byteCntMax |-> Uart_byteCntMax, demod |-> DemodNow,
               tag_active |-> tag_is_active, reader_active |-> reader_is_active,
               expect |-> expect_tag_answer, fed |-> FALSE, rfed |-> FALSE,
               trace |-> snTrace]
        s1 == SniffReader(s0, word[1], word[2], now)
        s2 == SniffTag(s1, word[1], word[2], now)
        trap == hit = "fault"
        s == IF button \/ trap THEN s0 ELSE s2
        b == At(s2.demod.output, s2.demod.len - 1)
    IN /\ button => wrapped
       /\ trap => (~button /\ (s2.demod.behind \/ snPc = "damaged"))
       /\ hit \notin {"none", "fault"} => (~button /\ s2.demod.behind)
       /\ storeFault' = trap
       /\ snPc' = IF trap THEN "fault"
                  ELSE IF button THEN "stopped"
                  ELSE IF s2.demod.behind \/ snPc = "damaged" THEN "damaged"
                  ELSE "run"
       /\ snRead' = snRead + 1
       /\ snSamples' = IF hit = "samples" THEN LowByteSet(samples, b) ELSE samples
       /\ snDmaStart' = IF hit = "dma_start_time" THEN LowByteSet(dma_start_time, b)
                        ELSE dma_start_time
       /\ snUpTo' = (snUpTo + 1) % DMA_BUFFER_SIZE
       /\ tag_is_active' = s.tag_active
       /\ reader_is_active' = IF hit = "reader_is_active" THEN b # 0
                              ELSE s.reader_active
       /\ expect_tag_answer' = IF hit = "expect_tag_answer" THEN b # 0 ELSE s.expect
       /\ snTagFed' = s.fed
       /\ snReaderFed' = s.rfed
       /\ snTrace' = s.trace
       /\ Uart_state' = s.uart.state
       /\ Uart_shiftReg' = s.uart.shiftReg
       /\ Uart_bitCnt' = s.uart.bitCnt
       /\ Uart_byteCnt' = s.uart.byteCnt
       /\ Uart_byteCntMax' = s.byteCntMax
       /\ Uart_posCnt' = s.uart.posCnt
       /\ Uart_output' = s.uart.output
       /\ Demod_state' = s.demod.state
       /\ Demod_bitCount' = s.demod.bitCount
       /\ Demod_posCount' = s.demod.posCount
       /\ Demod_thisBit' = s.demod.thisBit
       /\ Demod_shiftReg' = s.demod.shiftReg
       /\ Demod_output' = s.demod.output
       /\ Demod_len' = s.demod.len
       /\ Demod_sumI' = s.demod.sumI
       /\ Demod_sumQ' = s.demod.sumQ

\* one turn of the loop that found a word, read through upTo
SniffSample(button) ==
    /\ snPc \in {"run", "damaged"}
    /\ snRead < Len(snStream)
    /\ \E hit \in SniffHits : SniffTurn(button, hit, snStream[snRead + 1])
    /\ UNCHANGED <<snLine, snFirstTick, Demod_max_len, uKind, uCmd, uBits, uFed,
                   uTrues, uTrueAt, uAwaited>>

\* the sniffer on one line
SniffNext ==
    \/ /\ \E line \in SniffLineIds, tick \in SniffFirstTicks : SniffStart(line, tick)
       /\ UNCHANGED <<simVars, s_iso14b_pcb_blocknum, s_iso14b_fwt, s_iso14b_timeout,
                      s_field_on, apduVars, selVars, dispVars, getVars, callVars, fieldVars,
                      ringVars>>
    \/ /\ \E button \in BOOLEAN : SniffSample(button)
       /\ UNCHANGED <<simVars, s_iso14b_pcb_blocknum, s_iso14b_fwt, s_iso14b_timeout,
                      s_field_on, apduVars, selVars, dispVars, getVars, callVars, fieldVars,
                      ringVars>>

SniffSpec == Init /\ [][SniffNext]_vars

-----------------------------------------------------------------------------
(* The RF field and s_field_on over whole operations.                      *)

\* flag sets of SendRawCommand14443B made of ISO14B_CONNECT,
\* ISO14B_SET_TIMEOUT, ISO14B_RAW and ISO14B_DISCONNECT
RawFlagSets ==
    {[connect |-> c, set_timeout |-> s, raw |-> r, disconnect |-> d] :
        c \in BOOLEAN, s \in BOOLEAN, r \in BOOLEAN, d \in BOOLEAN}

\* timeouts (in ETU) of these requests
FieldTimeouts == {128}

\* SendRawCommand14443B(p) with the flags f, p->timeout = t, the receive of the
\* RAW step ending with status st
RawRequest(f, t, st) ==
    LET field_on == f.connect \/ s_field_on
        antenna == f.connect \/ fieldOn
        refused == f.raw /\ FieldOff(FALSE, TRUE) /\ ~f.connect
        sent == f.raw /\ ~refused
    IN /\ callOp' = "SendRawCommand14443B"
       /\ callArg' = [flags |-> f, timeout |-> t,
                      reply |-> IF refused THEN PM3_ERFTRANS
                                ELSE IF sent THEN st ELSE "none"]
       /\ s_iso14b_fwt' = IF f.connect THEN 8 ELSE s_iso14b_fwt
       /\ s_iso14b_timeout' = IF f.set_timeout THEN SetTimeout(t)
                              ELSE IF f.connect THEN FwtTimeout(8)
                              ELSE s_iso14b_timeout
       /\ Uart_byteCntMax' = IF f.connect THEN MAX_FRAME_SIZE ELSE Uart_byteCntMax
       /\ s_field_on' = IF f.disconnect THEN FALSE ELSE field_on
       /\ fieldOn' = IF f.disconnect THEN FALSE ELSE antenna
       /\ fieldTx' = IF ~sent THEN fieldTx
                     ELSE IF antenna /\ fieldTx # "off" THEN "on" ELSE "off"
       /\ UNCHANGED <<s_iso14b_pcb_blocknum, callOut>>

\* read_14b_st_block(blocknr): iso14443b_setup(), the select and the read with
\* the field on, switch_off()
ReadStBlock ==
    /\ callOp' = "read_14b_st_block"
    /\ callArg' = 0
    /\ s_iso14b_fwt' = 8
    /\ s_iso14b_timeout' = FwtTimeout(8)
    /\ Uart_byteCntMax' = MAX_FRAME_SIZE
    /\ s_field_on' = TRUE
    /\ fieldOn' = FALSE
    /\ fieldTx' = IF fieldTx # "off" THEN "on" ELSE "off"
    /\ UNCHANGED <<s_iso14b_pcb_blocknum, callOut>>

\* SimulateIso14443bTag(pupi) or SniffIso14443b() from its start to its
\* switch_off(): neither sends as reader. heard: Uart14bInit ran, in the
\* sniffer always, in the simulator once a reader field was seen and
\* GetIso14443bCommandFromReader was entered
ListenMode(name, heard) ==
    /\ name = "SniffIso14443b" => heard
    /\ callOp' = name
    /\ callArg' = heard
    /\ fieldOn' = FALSE
    /\ Uart_byteCntMax' = IF heard THEN MAX_FRAME_SIZE ELSE Uart_byteCntMax
    /\ UNCHANGED <<s_iso14b_pcb_blocknum, s_iso14b_fwt, s_iso14b_timeout, s_field_on,
                   fieldTx, callOut>>

\* the operations of the device that end with the field off
ListenModes == {"SimulateIso14443bTag", "SniffIso14443b"}

\* fieldTx once a frame went out as reader: no send tests the field itself
FieldSent == IF fieldOn /\ fieldTx # "off" THEN "on" ELSE "off"

\* no flag of RawFlagSets
NoRawFlags == [connect |-> FALSE, set_timeout |-> FALSE, raw |-> FALSE, disconnect |-> FALSE]

\* SendRawCommand14443B(p) with ISO14B_SELECT_STD alone: iso14443b_select_card
\* on the zeroed buf; no test of s_field_on comes before its frames; the
\* reply carries the descriptor
FieldSelectCard(o1, o2) ==
    /\ SelectCard(o1, o2)
    /\ callOp' = "SendRawCommand14443B"
    /\ callArg' = [flags |-> NoRawFlags, select |-> "ISO14B_SELECT_STD",
                   reply |-> status', data |-> CardBytes(card'), sent |-> selTx']
    /\ fieldTx' = FieldSent
    /\ UNCHANGED <<fieldOn, callOut>>

\* SendRawCommand14443B(p) with ISO14B_SELECT_SR, _XRX, _CTS or _PICOPASS
\* alone, the tag behaving as a says: the step comes before the test of
\* s_field_on and its frames go out whatever the flag holds. callArg keeps
\* the reply with the descriptor and the frames sent; buf is local to the call
FieldSelectOther(k, a) ==
    LET f == OtherFlowOf(k, a)
    IN  /\ callOp' = "SendRawCommand14443B"
        /\ callArg' = [flags |-> NoRawFlags, select |-> DOtherSelects[k].flag,
                       reply |-> f.ret, data |-> DescBytes(k, f.card), sent |-> f.sent]
        /\ s_iso14b_timeout' = SelectOtherTimeout(DOtherSelects[k].step, s_iso14b_timeout)
        /\ fieldTx' = FieldSent
        /\ UNCHANGED <<s_iso14b_pcb_blocknum, s_iso14b_fwt, s_field_on, Uart_byteCntMax,
                       fieldOn, callOut>>

\* iso14443b_apdu(msg, msg_len, send_chaining, rxdata, ...) called from
\* outside on a zeroed buffer, up to its first receive: it sends without a
\* test of s_field_on
FieldApduCall(msg, chaining) ==
    /\ ApduCallOn(msg, chaining, <<>>)
    /\ callOp' = "iso14443b_apdu"
    /\ callArg' = [msg |-> msg, chaining |-> chaining]
    /\ fieldTx' = FieldSent
    /\ SelReset
    /\ UNCHANGED <<fieldOn, callOut>>

\* the READ_BLK frame of read_14b_srx_block
SrxReadBlock(blocknr) == WithCrc(<<8, blocknr>>)

\* what read_14b_srx_block returns when Get14443bAnswerFromTag delivers o
ReadSrxBlockRet(o) ==
    IF o.st # PM3_SUCCESS THEN PM3_ECARDEXCHANGE
    ELSE IF Len(o.data) # 6 THEN PM3_EWRONGANSWER
    ELSE IF ~CheckCrc14B(o.data, Len(o.data)) THEN PM3_ECRC
    ELSE PM3_SUCCESS

\* answers of an SR-X tag to READ_BLK
ReadBlockAnswers == {Ok(WithCrc(<<222, 173, 190, 239>>)), Ok(WithCrc(<<222>>)), Silent}

\* read_14b_srx_block(blocknr, block) called from outside: it sends READ_BLK
\* without a test of s_field_on and writes no session static
ReadSrxBlock(blocknr, o) ==
    /\ callOp' = "read_14b_srx_block"
    /\ callArg' = [blocknr |-> blocknr, sent |-> SrxReadBlock(blocknr),
                   reply |-> ReadSrxBlockRet(o)]
    /\ fieldTx' = FieldSent
    /\ UNCHANGED <<sessVars, fieldOn, callOut>>

\* CodeAndTransmit14443bAsReader(cmd, len, ...) called from outside
FieldTransmit(cmd) ==
    /\ callOp' = "CodeAndTransmit14443bAsReader"
    /\ callArg' = cmd
    /\ fieldTx' = FieldSent
    /\ UNCHANGED <<sessVars, fieldOn, callOut>>

\* answers of the tag to an APDU sent from outside the dispatcher
FieldApduAnswers == {Ok(WithCrc(<<2, 144, 0>>)), Silent}

\* an operation that neither selects a card nor sends an APDU starts: the
\* locals, buffers and results of the call before it are gone
FieldForget ==
    /\ ApduLocalsReset
    /\ rxdata' = <<>>
    /\ txFrame' = <<>>
    /\ txCount' = 0
    /\ status' = PM3_SUCCESS
    /\ lastOp' = "none"
    /\ SelReset

\* the operations that touch the field or send as reader, one at a time
FieldNext ==
    \/ /\ pc = "idle"
       /\ \E f \in RawFlagSets, t \in FieldTimeouts, st \in {PM3_SUCCESS, PM3_ETIMEOUT} :
              RawRequest(f, t, st)
       /\ FieldForget
       /\ UNCHANGED <<simVars, dispVars, uartVars, demodVars, getVars, sniffVars, ringVars>>
    \/ /\ pc = "idle"
       /\ ReadStBlock
       /\ FieldForget
       /\ UNCHANGED <<simVars, dispVars, uartVars, demodVars, getVars, sniffVars, ringVars>>
    \/ /\ pc = "idle"
       /\ \E name \in ListenModes, heard \in BOOLEAN : ListenMode(name, heard)
       /\ FieldForget
       /\ UNCHANGED <<simVars, dispVars, uartVars, demodVars, getVars, sniffVars, ringVars>>
    \/ /\ \E o1 \in DispAtqbAnswers, o2 \in DispAttribAnswers : FieldSelectCard(o1, o2)
       /\ UNCHANGED <<dispVars, uartVars, demodVars, getVars, sniffVars, ringVars>>
    \/ /\ pc = "idle"
       /\ \E k \in 1..4 : \E a \in OtherScripts(k) : FieldSelectOther(k, a)
       /\ FieldForget
       /\ UNCHANGED <<simVars, dispVars, uartVars, demodVars, getVars, sniffVars, ringVars>>
    \/ /\ \E i \in ApduInputs : FieldApduCall(i.msg, i.chaining)
       /\ UNCHANGED <<dispVars, uartVars, demodVars, getVars, sniffVars, ringVars>>
    \/ /\ \E o \in FieldApduAnswers : ApduRx(o)
       /\ UNCHANGED restVars
    \/ /\ pc = "idle"
       /\ \E o \in ReadBlockAnswers : ReadSrxBlock(7, o)
       /\ FieldForget
       /\ UNCHANGED <<simVars, dispVars, uartVars, demodVars, getVars, sniffVars, ringVars>>
    \/ /\ pc = "idle"
       /\ FieldTransmit(wupb)
       /\ FieldForget
       /\ UNCHANGED <<simVars, dispVars, uartVars, demodVars, getVars, sniffVars, ringVars>>

FieldSpec == Init /\ [][FieldNext]_vars

-----------------------------------------------------------------------------
(* Properties of the tag simulator, under SimSpec.                         *)

\* C1: from IDLE a WUPB frame (5 bytes, 0x05, byte[2] & 0x08 set) makes the
\* simulator transmit ATQB and move to READY; from READY an HLTB frame (7 bytes,
\* 0x50) makes it transmit OK and move to HALT; in HALT a REQB frame (5 bytes,
\* 0x05, byte[2] & 0x08 clear) causes no transmission and no state change, a
\* WUPB causes ATQB and a move to READY.
C1_SimWakeHaltCycle ==
    cmdsReceived > 0 =>
        LET f    == receivedCmd
            req  == Len(f) = 5 /\ f[1] = 5
            wup  == req /\ (f[3] \div 8) % 2 = 1
            reqb == req /\ (f[3] \div 8) % 2 = 0
            hlt  == Len(f) = 7 /\ f[1] = 80
        IN  /\ (simPrevState = SIM_IDLE /\ wup)
                => (simTx = respATQB /\ simNewState = SIM_READY)
            /\ (simPrevState = SIM_READY /\ hlt)
                => (simTx = respOK /\ simNewState = SIM_HALT)
            /\ (simPrevState = SIM_HALT /\ reqb)
                => (simTx = <<>> /\ simNewState = SIM_HALT)
            /\ (simPrevState = SIM_HALT /\ wup)
                => (simTx = respATQB /\ simNewState = SIM_READY)

\* C1 witness: WUPB, HLTB, then a REQB the halted simulator ignores
C1_Witness ==
    /\ cmdsReceived = 3
    /\ simPrevState = SIM_HALT
    /\ receivedCmd = <<5, 0, 0, 113, 255>>
    /\ simTx = <<>>
    /\ cardSTATE = SIM_HALT

\* C2: in READY, ACTIVE and HALT the response and the next state for WUPB, REQB,
\* HLTB and ATTRIB are those of the transition table; ACTIVE is entered only by
\* ATTRIB in READY, HALT only by HLTB in READY, no frame leaves ACTIVE, and in
\* HALT the frames REQB, HLTB and ATTRIB are not answered.
C2_SimTransitionTable ==
    cmdsReceived > 0 =>
        LET f    == receivedCmd
            req  == Len(f) = 5 /\ f[1] = 5
            wup  == req /\ (f[3] \div 8) % 2 = 1
            reqb == req /\ (f[3] \div 8) % 2 = 0
            hlt  == Len(f) = 7 /\ f[1] = 80
            attr == Len(f) = 11 /\ f[1] = 29
            Row(st, tx, nxt) == simPrevState = st => (simTx = tx /\ simNewState = nxt)
        IN  /\ wup  => /\ Row(SIM_READY, respATQB, SIM_READY)
                       /\ Row(SIM_ACTIVE, respATQB, SIM_ACTIVE)
                       /\ Row(SIM_HALT, respATQB, SIM_READY)
            /\ reqb => /\ Row(SIM_READY, respATQB, SIM_READY)
                       /\ Row(SIM_ACTIVE, respATQB, SIM_ACTIVE)
                       /\ Row(SIM_HALT, <<>>, SIM_HALT)
            /\ hlt  => /\ Row(SIM_READY, respOK, SIM_HALT)
                       /\ Row(SIM_ACTIVE, respOK, SIM_ACTIVE)
                       /\ Row(SIM_HALT, <<>>, SIM_HALT)
            /\ attr => /\ Row(SIM_READY, respOK, SIM_ACTIVE)
                       /\ Row(SIM_ACTIVE, respOK, SIM_ACTIVE)
                       /\ Row(SIM_HALT, <<>>, SIM_HALT)
            /\ (simNewState = SIM_ACTIVE /\ simPrevState # SIM_ACTIVE)
                => (simPrevState = SIM_READY /\ attr)
            /\ (simNewState = SIM_HALT /\ simPrevState # SIM_HALT)
                => (simPrevState = SIM_READY /\ hlt)
            /\ simPrevState = SIM_ACTIVE => simNewState = SIM_ACTIVE

\* C2 witness: WUPB, ATTRIB, then an HLTB the active simulator answers with OK
\* without leaving ACTIVE
C2_Witness ==
    /\ cmdsReceived = 3
    /\ simPrevState = SIM_ACTIVE
    /\ Len(receivedCmd) = 7 /\ receivedCmd[1] = 80
    /\ simTx = respOK
    /\ cardSTATE = SIM_ACTIVE

\* C3: in IDLE an ATTRIB frame (11 bytes, 0x1D) triggers no action, nothing is
\* transmitted and the state stays IDLE, whereas HLTB in IDLE is answered with
\* OK without a state change. (The code answers the ATTRIB with OK.)
C3_IdleAttribNoAction ==
    (cmdsReceived > 0 /\ simPrevState = SIM_IDLE) =>
        LET f == receivedCmd
        IN  /\ (Len(f) = 11 /\ f[1] = 29) => (simTx = <<>> /\ simNewState = SIM_IDLE)
            /\ (Len(f) = 7 /\ f[1] = 80) => (simTx = respOK /\ simNewState = SIM_IDLE)

\* C4: the simulator acts on a frame only when its CRC-B is good: a frame with
\* a wrong CRC causes no transmission and no state change. (The code never
\* checks the CRC of a received frame.)
C4_BadCrcIgnored ==
    (cmdsReceived > 0 /\ ~CheckCrc14B(receivedCmd, Len(receivedCmd))) =>
        (simTx = <<>> /\ simNewState = simPrevState)

-----------------------------------------------------------------------------
(* Properties of iso14443b_apdu, under Spec.                           *)

\* C5, as the code has it: when iso14443b_apdu has taken a final (non-S(WTX))
\* response of at least 3 bytes whose first byte r is an I-block or R(ACK) PCB
\* ((r & 0xC0) == 0 or (r & 0xD0) == 0x80) with (r & 1) equal to the block
\* number, the block number is toggled; in every other case it is unchanged;
\* the block number is always 0 or 1.
C5_BlockNumberRule ==
    /\ s_iso14b_pcb_blocknum \in {0, 1}
    /\ (pc = "idle" /\ lastOp = "apdu") =>
           LET r   == At(rxFrame, 0)
               n   == Len(rxFrame)
               hit == /\ retPath \in {"ok", "crc"}
                      /\ n >= 3
                      /\ (r < 64 \/ (r \div 64 = 2 /\ (r \div 16) % 2 = 0))
                      /\ r % 2 = entryBlocknum
           IN  s_iso14b_pcb_blocknum =
                   IF hit THEN 1 - entryBlocknum ELSE entryBlocknum

\* C5 witness: a one-byte final response 00 at block number 0 leaves it at 0
C5_Witness ==
    /\ pc = "idle" /\ lastOp = "apdu" /\ retPath = "ok"
    /\ rxFrame = <<0>>
    /\ entryBlocknum = 0
    /\ s_iso14b_pcb_blocknum = 0

\* C5 as stated: the rule without the length condition
C5_AsStated ==
    /\ s_iso14b_pcb_blocknum \in {0, 1}
    /\ (pc = "idle" /\ lastOp = "apdu") =>
           LET r   == At(rxFrame, 0)
               n   == Len(rxFrame)
               hit == /\ retPath \in {"ok", "crc"}
                      /\ n >= 1
                      /\ (r < 64 \/ (r \div 64 = 2 /\ (r \div 16) % 2 = 0))
                      /\ r % 2 = entryBlocknum
           IN  s_iso14b_pcb_blocknum =
                   IF hit THEN 1 - entryBlocknum ELSE entryBlocknum

\* C6, as the code has it: from block number 0 an exchange answered by an
\* I-block with PCB 0x00 leaves the block number at 1; an exchange answered by
\* an R(ACK) with PCB 0x82 while the block number is 1 leaves it at 1, and one
\* answered by an R(ACK) with PCB 0x83 toggles it back to 0.
C6_RAckToggling ==
    (pc = "idle" /\ lastOp = "apdu" /\ retPath = "ok" /\ Len(rxFrame) >= 3) =>
        /\ (entryBlocknum = 0 /\ rxFrame[1] = 0) => s_iso14b_pcb_blocknum = 1
        /\ (entryBlocknum = 1 /\ rxFrame[1] = 130) => s_iso14b_pcb_blocknum = 1
        /\ (entryBlocknum = 1 /\ rxFrame[1] = 131) => s_iso14b_pcb_blocknum = 0

\* C6 witness: an R(ACK) 0x82 with its CRC answered an exchange made at block
\* number 1
C6_Witness ==
    /\ pc = "idle" /\ lastOp = "apdu" /\ retPath = "ok"
    /\ Len(rxFrame) = 3 /\ rxFrame[1] = 130
    /\ entryBlocknum = 1
    /\ s_iso14b_pcb_blocknum = 1

\* C6 as stated: the R(ACK) 0x82 received at block number 1 toggles it to 0
C6_AsStated ==
    (pc = "idle" /\ lastOp = "apdu" /\ retPath = "ok" /\ Len(rxFrame) >= 3) =>
        /\ (entryBlocknum = 0 /\ rxFrame[1] = 0) => s_iso14b_pcb_blocknum = 1
        /\ (entryBlocknum = 1 /\ rxFrame[1] = 130) => s_iso14b_pcb_blocknum = 0

\* C7, as the code has it: an I-block whose block-number bit (PCB & 0x01)
\* differs from the block number does not toggle it; one of at least 3 bytes
\* whose bit is the same toggles it.
C7_IBlockToggling ==
    (pc = "idle" /\ lastOp = "apdu" /\ retPath \in {"ok", "crc"}
        /\ Len(rxFrame) >= 1 /\ At(rxFrame, 0) < 64) =>
        /\ At(rxFrame, 0) % 2 # entryBlocknum
            => s_iso14b_pcb_blocknum = entryBlocknum
        /\ (At(rxFrame, 0) % 2 = entryBlocknum /\ Len(rxFrame) >= 3)
            => s_iso14b_pcb_blocknum = 1 - entryBlocknum

\* C7 witness: the I-block 03 90 00 answered an exchange made at block number 0
C7_Witness ==
    /\ pc = "idle" /\ lastOp = "apdu" /\ retPath = "ok"
    /\ Len(rxFrame) = 5 /\ rxFrame[1] = 3
    /\ entryBlocknum = 0
    /\ s_iso14b_pcb_blocknum = 0

\* C7 as stated: an I-block whose bit is the same as the block number does not
\* toggle it
C7_AsStated ==
    (pc = "idle" /\ lastOp = "apdu" /\ retPath \in {"ok", "crc"}
        /\ Len(rxFrame) >= 1 /\ At(rxFrame, 0) < 64
        /\ At(rxFrame, 0) % 2 = entryBlocknum) =>
        s_iso14b_pcb_blocknum = entryBlocknum

\* C8: when the response is an S(WTX) block with WTXM = w, the engine sends the
\* S(WTX) back with the same w and a fresh CRC-B, and the timeout of the receive
\* that follows is the frame waiting time derived from the stored FWI
\* multiplied by w, capped at MAX_14B_TIMEOUT. (The code shifts by FWI * w.)
C8_WtxTimeoutIsFwtTimesW ==
    (pc = "apdu_wtx_rx" /\ Len(rxFrame) >= 4) =>
        LET w    == rxFrame[2] % 64
            fwt  == FwtTimeout(s_iso14b_fwt)
            want == IF fwt * w > MAX_14B_TIMEOUT THEN MAX_14B_TIMEOUT ELSE fwt * w
        IN  /\ txFrame = WithCrc(<<rxFrame[1], w>>)
            /\ rxTimeout = want

\* C9: on every return path of iso14443b_apdu s_iso14b_timeout has the value it
\* had when the call was made. (The return after a failed receive inside the
\* S(WTX) loop skips the restore.)
C9_TimeoutRestoredOnReturn ==
    (pc = "idle" /\ lastOp = "apdu") => s_iso14b_timeout = entryTimeout

\* C10, as the code has it: APDU 00 A4 00 00 without chaining, answered by
\* F2 03 + CRC and, after the S(WTX) echo, by 02 90 00 + CRC: iso14443b_apdu
\* returns PM3_SUCCESS with response_byte 0x02, and the returned data are the 4
\* bytes 90 00 29 6A, the payload followed by the CRC-B of the response.
C10_ApduAfterOneWtx ==
    (/\ pc = "idle" /\ lastOp = "apdu"
     /\ apduMsg = <<0, 164, 0, 0>> /\ ~apduChaining
     /\ wtxRounds = 1 /\ txFrame = <<242, 3, 100, 114>>
     /\ rxFrame = <<2, 144, 0, 41, 106>>) =>
        /\ status = PM3_SUCCESS
        /\ response_byte = 2
        /\ responselen = 4
        /\ retData = <<144, 0, 41, 106>>

\* C10 witness: the scenario has run and returned
C10_Witness ==
    /\ pc = "idle" /\ lastOp = "apdu" /\ retPath = "ok"
    /\ apduMsg = <<0, 164, 0, 0>> /\ ~apduChaining
    /\ wtxRounds = 1 /\ lastWtxm = 3 /\ txCount = 2
    /\ txFrame = <<242, 3, 100, 114>>
    /\ rxFrame = <<2, 144, 0, 41, 106>>
    /\ responselen = 4

\* C10 as stated: the returned data are exactly the two bytes 90 00
C10_AsStated ==
    (/\ pc = "idle" /\ lastOp = "apdu"
     /\ apduMsg = <<0, 164, 0, 0>> /\ ~apduChaining
     /\ wtxRounds = 1 /\ txFrame = <<242, 3, 100, 114>>
     /\ rxFrame = <<2, 144, 0, 41, 106>>) =>
        /\ status = PM3_SUCCESS
        /\ response_byte = 2
        /\ responselen = 2
        /\ retData = <<144, 0>>

-----------------------------------------------------------------------------
(* Properties of iso14443b_select_card, under Spec.                        *)

\* C11, as the code has it: when the card answers the wake-up command with
\* ATQB 50 82 0D E1 74 20 38 19 22 00 21 85 5E D7 and ATTRIB with 00 78 F0,
\* iso14443b_select_card succeeds with uid = 82 0D E1 74,
\* atqb = 20 38 19 22 00 21 85, cid = 0, and the session has maximum frame
\* size 32 and FWI 8 (atqb[6] >> 4 = 0x85 >> 4), timeout 32 << 8 ETU.
C11_StandardSelect ==
    (pc = "idle" /\ lastOp = "select"
        /\ selRx = <<<<80, 130, 13, 225, 116, 32, 56, 25, 34, 0, 33, 133, 94, 215>>,
                     <<0, 120, 240>>>>) =>
        /\ status = PM3_SUCCESS
        /\ card.uid = <<130, 13, 225, 116>>
        /\ card.atqb = <<32, 56, 25, 34, 0, 33, 133>>
        /\ card.cid = 0
        /\ Uart_byteCntMax = 32
        /\ s_iso14b_fwt = 8
        /\ s_iso14b_timeout = 262144
        /\ s_iso14b_pcb_blocknum = 0

\* C11 witness: the select of scenario E1 has returned
C11_Witness ==
    /\ pc = "idle" /\ lastOp = "select" /\ status = PM3_SUCCESS
    /\ Len(selRx) = 2
    /\ selRx[1] = <<80, 130, 13, 225, 116, 32, 56, 25, 34, 0, 33, 133, 94, 215>>
    /\ selRx[2] = <<0, 120, 240>>
    /\ txCount = 2
    /\ s_iso14b_fwt = 8

\* C11 as stated: the session ends with maximum frame size 32 and FWI 2
C11_AsStated ==
    (pc = "idle" /\ lastOp = "select"
        /\ selRx = <<<<80, 130, 13, 225, 116, 32, 56, 25, 34, 0, 33, 133, 94, 215>>,
                     <<0, 120, 240>>>>) =>
        /\ status = PM3_SUCCESS
        /\ card.uid = <<130, 13, 225, 116>>
        /\ card.atqb = <<32, 56, 25, 34, 0, 33, 133>>
        /\ card.cid = 0
        /\ Uart_byteCntMax = 32
        /\ s_iso14b_fwt = 2

\* C12: a successful iso14443b_select_card resets the block number to 0, so the
\* first I-block iso14443b_apdu sends after it carries PCB 0x02 (0x12 with
\* chaining); ATTRIB is transmitted only after an ATQB of at least 14 bytes with
\* valid CRC-B; a failed select leaves block number, FWI, timeout and frame cap
\* unchanged.
C12_SelectResetsBlockNumber ==
    /\ [](/\ (pc = "idle" /\ lastOp = "select" /\ status = PM3_SUCCESS)
                => s_iso14b_pcb_blocknum = 0
          /\ (pc = "apdu_rx" /\ lastOp = "select" /\ status = PM3_SUCCESS
                  /\ Len(apduMsg) > 0)
                => txFrame[1] = (IF apduChaining THEN 18 ELSE 2)
          /\ (pc = "idle" /\ lastOp = "select" /\ txCount = 2)
                => /\ txFrame[1] = 29
                   /\ Len(selRx[1]) >= 14
                   /\ CheckCrc14B(selRx[1], Len(selRx[1])))
    /\ [][(pc = "idle" /\ lastOp' = "select" /\ status' # PM3_SUCCESS)
            => UNCHANGED <<s_iso14b_pcb_blocknum, s_iso14b_fwt, s_iso14b_timeout,
                           Uart_byteCntMax>>]_vars

\* C12 witness: the first I-block after a successful select, sent with chaining
C12_Witness ==
    /\ pc = "apdu_rx" /\ lastOp = "select" /\ status = PM3_SUCCESS
    /\ apduMsg = <<0, 164, 0, 0>> /\ apduChaining
    /\ txCount = 1
    /\ txFrame[1] = 18

-----------------------------------------------------------------------------
(* SendRawCommand14443B: order of the steps, field test, error handling.   *)

Range(q) == {q[i] : i \in DOMAIN q}

\* the place of a step in the order trigger-on, connect, set-timeout,
\* clear-trace, selects (STD, SR, XRX, CTS, PICOPASS), APDU, RAW, trigger-off,
\* disconnect
DRank(step) ==
    CASE step = "trigger_on" -> 1
      [] step = "connect" -> 2
      [] step = "set_timeout" -> 3
      [] step = "clear_trace" -> 4
      [] step = "select_std" -> 5
      [] step = "select_sr" -> 6
      [] step = "select_xrx" -> 7
      [] step = "select_cts" -> 8
      [] step = "select_picopass" -> 9
      [] step \in {"apdu", "apdu_rx"} -> 10
      [] step \in {"raw", "raw_rx"} -> 11
      [] step = "trigger_off" -> 12
      [] step = "disconnect" -> 13

\* the flags of the steps before the field test, with their steps
DFlagSteps ==
    {<<"ISO14B_REQUEST_TRIGGER", "trigger_on">>, <<"ISO14B_CONNECT", "connect">>,
     <<"ISO14B_SET_TIMEOUT", "set_timeout">>, <<"ISO14B_CLEARTRACE", "clear_trace">>,
     <<"ISO14B_SELECT_STD", "select_std">>, <<"ISO14B_SELECT_SR", "select_sr">>,
     <<"ISO14B_SELECT_XRX", "select_xrx">>, <<"ISO14B_SELECT_CTS", "select_cts">>,
     <<"ISO14B_SELECT_PICOPASS", "select_picopass">>,
     <<"ISO14B_DISCONNECT", "disconnect">>}

DAllSucceeded == \A i \in DOMAIN dReplies : dReplies[i].status = PM3_SUCCESS

\* a select step that comes before step in the order has failed
DFailedBefore(step) ==
    \E i \in DOMAIN dReplies :
        /\ dReplies[i].status # PM3_SUCCESS
        /\ dReplies[i].step \in {"select_std", "select_sr", "select_xrx", "select_cts",
                                 "select_picopass"}
        /\ DRank(dReplies[i].step) < DRank(step)

\* C13: for every value of p->flags, the steps a call of SendRawCommand14443B
\* performs come in the order trigger-on, connect, set-timeout, clear-trace,
\* selects (STD, SR, XRX, CTS, PICOPASS), APDU, RAW, trigger-off, disconnect,
\* each at most once; a step is performed only if its flag is set in p->flags,
\* and a call that has returned has performed the step of every flag set
\* unless a select before that step failed; a call whose steps all succeeded
\* has performed the APDU and the RAW step it was asked for; and when the call
\* has returned, also after a failed step, REQUEST_TRIGGER set means
\* trigger-off was performed and g_trigger is false, DISCONNECT set means
\* disconnect was performed last and s_field_on is false.
C13_DispatchOrder ==
    /\ \A i \in DOMAIN dLog : \A j \in DOMAIN dLog :
          i < j => /\ DRank(dLog[i]) <= DRank(dLog[j])
                   /\ dLog[i] # dLog[j]
    /\ \A fs \in DFlagSteps :
          /\ fs[2] \in Range(dLog) => fs[1] \in dFlags
          /\ (dpc = "done" /\ fs[1] \in dFlags /\ ~DFailedBefore(fs[2]))
                => fs[2] \in Range(dLog)
    /\ Range(dLog) \cap {"apdu", "apdu_rx"} # {} => "ISO14B_APDU" \in dFlags
    /\ Range(dLog) \cap {"raw", "raw_rx"} # {} => "ISO14B_RAW" \in dFlags
    /\ "trigger_off" \in Range(dLog) => "ISO14B_REQUEST_TRIGGER" \in dFlags
    /\ dpc = "done" =>
          /\ "ISO14B_REQUEST_TRIGGER" \in dFlags =>
                /\ "trigger_off" \in Range(dLog)
                /\ g_trigger = FALSE
          /\ "ISO14B_DISCONNECT" \in dFlags =>
                /\ dLog[Len(dLog)] = "disconnect"
                /\ s_field_on = FALSE
          /\ DAllSucceeded =>
                /\ "ISO14B_APDU" \in dFlags => "apdu" \in Range(dLog)
                /\ "ISO14B_RAW" \in dFlags => "raw" \in Range(dLog)

\* a call with trigger, connect, a standard select that failed, a Picopass
\* select and a RAW exchange with CRC that were asked for and not reached, and
\* disconnect
C13_Witness ==
    /\ dpc = "done"
    /\ dFlags = {"ISO14B_REQUEST_TRIGGER", "ISO14B_CONNECT", "ISO14B_SELECT_STD",
                 "ISO14B_SELECT_PICOPASS", "ISO14B_RAW", "ISO14B_APPEND_CRC",
                 "ISO14B_DISCONNECT"}
    /\ dLog = <<"trigger_on", "connect", "select_std", "trigger_off", "disconnect">>
    /\ dReplies = <<[step |-> "select_std", status |-> PM3_ECARDEXCHANGE]>>
    /\ g_trigger = FALSE
    /\ s_field_on = FALSE

DFieldOffReplied ==
    \E i \in DOMAIN dReplies :
        dReplies[i] = [step |-> "field_check", status |-> PM3_ERFTRANS]

\* C14: when ISO14B_APDU or ISO14B_RAW is set and s_field_on is false at the
\* field test, the call replies PM3_ERFTRANS and goes to "out:"; a call that
\* replied so performs no APDU and no RAW step and transmits no frame.
C14_FieldOffNoExchange ==
    /\ [](DFieldOffReplied =>
             /\ Range(dLog) \cap {"apdu", "apdu_rx", "raw", "raw_rx"} = {}
             /\ dpc \in {"out", "disconnect", "done"})
    /\ [][/\ (/\ dpc = "field_check"
              /\ s_field_on = FALSE
              /\ dFlags' \cap {"ISO14B_APDU", "ISO14B_RAW"} # {})
             => /\ dReplies' = Append(dReplies, [step |-> "field_check",
                                                  status |-> PM3_ERFTRANS])
                /\ dpc' = "out"
          /\ DFieldOffReplied => UNCHANGED <<txFrame, txCount>>]_vars

\* a call asking for a RAW exchange only, on a session without field, returned
C14_Witness ==
    /\ dpc = "done"
    /\ DFieldOffReplied
    /\ "ISO14B_RAW" \in dFlags
    /\ "ISO14B_APDU" \notin dFlags
    /\ s_field_on = FALSE
    /\ txCount = 0

\* C15: once a step of a call ended with a status other than PM3_SUCCESS no
\* later select, APDU or RAW step of the call is executed: a failed reply is
\* the last reply of the call, and after a failed or torn-off APDU step the
\* RAW step is not performed.
C15_ShortCircuit ==
    \A i \in DOMAIN dReplies :
        dReplies[i].status # PM3_SUCCESS =>
            /\ i = Len(dReplies)
            /\ dReplies[i].step = "apdu" => "raw" \notin Range(dLog)

\* C16: a call that replied PM3_ETEAROFF for the APDU step has not received
\* the tag's answer to the APDU, and one that replied PM3_ETEAROFF for the RAW
\* step has not received the answer to the raw frame.
C16_TearoffBeforeReceive ==
    \A i \in DOMAIN dReplies :
        dReplies[i].status = PM3_ETEAROFF =>
            /\ dReplies[i].step = "apdu" => "apdu_rx" \notin Range(dLog)
            /\ dReplies[i].step = "raw" => "raw_rx" \notin Range(dLog)

-----------------------------------------------------------------------------
(* Reader-bit encoder and the UART that decodes it.                        *)

\* the sample of a framed stream of n octets at which the tenth EOF bit is
\* sampled: the third sample of logical bit 12 + 10n + 10
EofSample(n) == 4 * (12 + 10 * n + 9) + 3

\* the stream CodeIso14443bAsReader made with framing decodes to its octets,
\* true being returned once, at the EOF, and false before
UartDecodes ==
    /\ uFed < EofSample(Len(uCmd)) => uTrues = 0
    /\ uFed >= EofSample(Len(uCmd)) =>
          /\ uTrues = 1
          /\ uTrueAt = EofSample(Len(uCmd))
          /\ Uart_byteCnt = Len(uCmd)
          /\ Take(Uart_output, Uart_byteCnt) = uCmd
    /\ uFed = EofSample(Len(uCmd)) => Uart_state = STATE_14B_UNSYNCD

\* C17: for every non-empty byte string below the UART cap, the bits of
\* CodeIso14443bAsReader with framing, each presented as 4 samples to
\* Handle14443bSampleFromReader starting in UNSYNCD, make the UART store
\* exactly the encoded bytes and return true exactly once, at the sample that
\* completes the EOF, and false for every earlier sample.
C17_EncodeDecodeInverse ==
    (uKind = "frame" /\ Len(uCmd) >= 1 /\ Len(uCmd) < Uart_byteCntMax) => UartDecodes

\* the frame of REQB decoded up to its EOF
C17_Witness ==
    /\ uKind = "frame"
    /\ uCmd = cmdREQB
    /\ uFed = EofSample(5)
    /\ uTrues = 1
    /\ Uart_output = cmdREQB
    /\ Uart_state = STATE_14B_UNSYNCD

\* C17 as stated: the same for every byte string below the cap, the empty one
\* included
C17_AsStated ==
    (uKind = "frame" /\ Len(uCmd) < Uart_byteCntMax) => UartDecodes

\* the ten bits of the i-th character of uCmd start after position off
CharAt(off, i) ==
    /\ uBits[off + 1] = 0
    /\ \A k \in 0..7 : uBits[off + 2 + k] = (uCmd[i] \div Pow2(k)) % 2
    /\ uBits[off + 10] = 1

\* C18: with framing CodeIso14443bAsReader emits for n bytes 12 + 10n + 10
\* logical bits: 10 zeros, 2 ones, per byte a 0 start bit, the eight data bits
\* least significant first and a 1 stop bit, then 10 zeros; the character of
\* the byte 0x01 is 0 1 0 0 0 0 0 0 0 1; without framing it emits the 10n
\* character bits only.
C18_EncoderBits ==
    /\ uKind = "frame" =>
          /\ Len(uBits) = 12 + 10 * Len(uCmd) + 10
          /\ \A i \in 1..10 : uBits[i] = 0
          /\ uBits[11] = 1 /\ uBits[12] = 1
          /\ \A i \in 1..Len(uCmd) : CharAt(12 + 10 * (i - 1), i)
          /\ \A i \in 1..10 : uBits[12 + 10 * Len(uCmd) + i] = 0
          /\ uCmd = <<1>> => SubSeq(uBits, 13, 22) = <<0, 1, 0, 0, 0, 0, 0, 0, 0, 1>>
    /\ uKind = "unframed" =>
          /\ Len(uBits) = 10 * Len(uCmd)
          /\ \A i \in 1..Len(uCmd) : CharAt(10 * (i - 1), i)

\* the byte 0x01 encoded with framing
C18_Witness ==
    /\ uKind = "frame"
    /\ uCmd = <<1>>
    /\ uBits = <<0, 0, 0, 0, 0, 0, 0, 0, 0, 0, 1, 1,
                 0, 1, 0, 0, 0, 0, 0, 0, 0, 1,
                 0, 0, 0, 0, 0, 0, 0, 0, 0, 0>>

\* C19: from UNSYNCD with 4 samples per bit, 9 zero bits followed by a one
\* never bring the UART to AWAITING_START_BIT; 10 or 11 zero bits followed by
\* a one leave it in AWAITING_START_BIT once the one has been sampled; 12 to
\* 22 zero bits followed by a one never bring it there (the 13th sampled bit
\* ends the SOF search, and the one after 12 zeros is counted as the 13th).
C19_SofTolerance ==
    uKind = "sof" =>
        /\ Len(uBits) = 9 + 1 => ~uAwaited
        /\ (Len(uBits) \in {10 + 1, 11 + 1} /\ uFed = 4 * Len(uBits)) =>
              Uart_state = STATE_14B_AWAITING_START_BIT
        /\ (Len(uBits) >= 12 + 1 /\ Len(uBits) <= 22 + 1) => ~uAwaited

\* eleven zeros and a one, sampled
C19_Witness ==
    /\ uKind = "sof"
    /\ Len(uBits) = 11 + 1
    /\ uFed = 4 * Len(uBits)
    /\ Uart_state = STATE_14B_AWAITING_START_BIT
    /\ Uart_bitCnt = 12

\* C19 as stated: 9 zeros and a one never reach AWAITING_START_BIT, and every
\* run of n >= 10 zeros and a one leaves the UART in AWAITING_START_BIT.
C19_AsStated ==
    uKind = "sof" =>
        /\ Len(uBits) = 9 + 1 => ~uAwaited
        /\ (Len(uBits) >= 10 + 1 /\ uFed = 4 * Len(uBits)) =>
              Uart_state = STATE_14B_AWAITING_START_BIT

-----------------------------------------------------------------------------
(* Get14443bAnswerFromTag: the timeout.                                    *)

\* C20: after a sample was processed without completing a frame,
\* PM3_ETIMEOUT is returned whenever the ticks elapsed since dma_start_time
\* exceed the timeout and the demodulator is in UNSYNCD or PHASE_REF_TRAINING
\* (the loop does not go on in such a state), and it is never returned with
\* the demodulator in WAIT_FOR_RISING_EDGE_OF_SOF, AWAITING_START_BIT or
\* RECEIVING_DATA.
C20_TimeoutPolicy ==
    /\ (gPc = "loop" /\ gSamples >= 1 /\ gElapsed > gTimeout) =>
          Demod_state \notin {DEMOD_UNSYNCD, DEMOD_PHASE_REF_TRAINING}
    /\ gRet = PM3_ETIMEOUT =>
          Demod_state \notin {WAIT_FOR_RISING_EDGE_OF_SOF, DEMOD_AWAITING_START_BIT,
                              DEMOD_RECEIVING_DATA}

-----------------------------------------------------------------------------
(* Properties of the receive loop under a DMA that never stops delivering,  *)
(* under GetAnswerLiveSpec.                                                *)

\* C21: the receive loop terminates: while the DMA keeps delivering samples and
\* the tick counter keeps advancing, a call of Get14443bAnswerFromTag that has
\* entered its loop returns, whatever the samples are and without the button.
\* On a line that repeats, the loop is therefore never found, a period later,
\* at the same sample with the same Demod: from such a state the same turns
\* follow for ever, the timeout test reading a Demod.state that never changes
\* its course.
C21_ReceiveTerminates == (gPc = "loop") => ~gMark.again

-----------------------------------------------------------------------------
(* Properties of the frame timing, under GetAnswerSpec.                    *)

\* the tick of the answer's EOF: DELAY_TAG_TO_ARM before the counter value at
\* which the demodulator reported it
EofTick == SspClkAtReturn - DELAY_TAG_TO_ARM

\* C22: TR2: a command transmitted after a tag frame was received starts its
\* modulation at least 14 ETU (448 ticks) after the tick of that frame's EOF,
\* however far the counter has advanced in between
C22_Tr2FrameDelay ==
    (gPc = "sent" /\ FrameReceived) => gStartTime >= EofTick + ISO14B_TR2

\* C30: when the demodulator reports a complete frame, the recorded eof_time
\* is the absolute SSP tick count at that moment less DELAY_TAG_TO_ARM, on the
\* timeline of the counter that the next start_time is compared with
C30_EofTimeAbsolute == FrameReceived => gEofTime = EofTick

\* C27: the tag demodulator stays inside the caller's buffer: Demod.len never
\* exceeds Demod.max_len, so that no byte is stored at an index of max_len or
\* more (the byte stored last is at index Demod.len - 1)
C27_DemodBufferBound ==
    gPc \in {"loop", "done", "sent"} => Demod_len <= Demod_max_len

-----------------------------------------------------------------------------
(* Properties of the session's timing, under TimingSpec.                   *)

\* min(32 * etu, MAX_14B_TIMEOUT), MAX_14B_TIMEOUT being a multiple of 32
MinTicks(etu) ==
    IF etu > MAX_14B_TIMEOUT \div 32 THEN MAX_14B_TIMEOUT ELSE 32 * etu

\* C23: after iso14b_set_fwt(f), f in 0..14, the stored FWI is f and the
\* timeout is min(32 * 2^f ETU in ticks, MAX_14B_TIMEOUT), 16384 for f = 4 and
\* MAX_14B_TIMEOUT for f = 14; after iso14b_set_timeout(e) the timeout is
\* min(32 * e, MAX_14B_TIMEOUT) for every 32-bit e
C23_FwiToTimeout ==
    /\ callOp = "iso14b_set_fwt" =>
          /\ s_iso14b_fwt = callArg
          /\ s_iso14b_timeout = MinTicks(32 * Pow2(callArg))
          /\ callArg = 4 => s_iso14b_timeout = 16384
          /\ callArg = 14 => s_iso14b_timeout = MAX_14B_TIMEOUT
    /\ callOp = "iso14b_set_timeout" => s_iso14b_timeout = MinTicks(callArg)

-----------------------------------------------------------------------------
(* Properties of the CRC-B functions, under CrcSpec.                       *)

\* C26 as stated: for every byte string b, the empty one included, the frame
\* made of b and the two CRC-B bytes of AddCrc14B passes check_crc.
C26_AsStated == callOp = "AddCrc14B" => callOut

\* C26: CRC-B round trip: for every byte string b of one byte or more, the
\* frame made of b and the two CRC-B bytes of AddCrc14B passes check_crc, while
\* the 2-byte frame made of the empty string does not; that frame with any one
\* bit inverted fails it; check_crc is true only of frames of 3 bytes and
\* more.
C26_CrcRoundTrip ==
    /\ callOp = "AddCrc14B" => (callOut <=> Len(callArg) >= 3)
    /\ callOp = "flip" => ~callOut
    /\ callOp \in {"AddCrc14B", "flip", "check_crc"} =>
          (callOut => Len(callArg) >= 3)

\* C26 witness: AddCrc14B on the byte 00 made 00 78 F0, check_crc passes it
C26_Witness ==
    callOp = "AddCrc14B" /\ callArg = <<0, 120, 240>> /\ callOut

-----------------------------------------------------------------------------
(* Properties of the demodulator, under DemodSpec.                         *)

\* the sample of a step in which Handle14443bSamplesFromTag runs
StepSample ==
    IF gPc = "loop" THEN SampleAt(NextPos(gPos)) ELSE <<callArg'.ci, callArg'.cq>>

\* max(|I|,|Q|) + min(|I|,|Q|)/2 of that sample is above 8
StepAbove ==
    LET i == Abs(StepSample[1])
        q == Abs(StepSample[2])
    IN  Max2(i, q) + Min2(i, q) \div 2 > 8

\* that sample has the polarity of the sums on their dominant axis
StepSame ==
    LET ci == StepSample[1]
        cq == StepSample[2]
    IN  IF Abs(Demod_sumI) > Abs(Demod_sumQ)
        THEN (ci > 0 /\ Demod_sumI > 0) \/ (ci < 0 /\ Demod_sumI < 0)
        ELSE (cq > 0 /\ Demod_sumQ > 0) \/ (cq < 0 /\ Demod_sumQ < 0)

\* C29: phase-reference training. From UNSYNCD a sample above the threshold
\* enters PHASE_REF_TRAINING with sumI, sumQ set to it; in training a sample
\* above the threshold and of the same polarity is added to the sums while fewer
\* than 10 samples were counted and only counted afterwards; a polarity change
\* or a sample not above the threshold before 10 samples leads back to UNSYNCD;
\* a polarity change after 10 samples and more enters RECEIVING_DATA; no other
\* state changes sumI or sumQ
C29_PhaseRefTraining ==
    [][(gPc = "loop" \/ (gPc = "idle" /\ gPc' = "idle")) =>
         /\ (Demod_state = DEMOD_UNSYNCD /\ StepAbove) =>
               /\ Demod_state' = DEMOD_PHASE_REF_TRAINING
               /\ Demod_sumI' = StepSample[1]
               /\ Demod_sumQ' = StepSample[2]
         /\ (Demod_state = DEMOD_UNSYNCD /\ ~StepAbove) =>
               /\ Demod_state' = DEMOD_UNSYNCD
               /\ UNCHANGED <<Demod_sumI, Demod_sumQ>>
         /\ (Demod_state = DEMOD_PHASE_REF_TRAINING /\ StepAbove /\ StepSame) =>
               /\ Demod_state' = DEMOD_PHASE_REF_TRAINING
               /\ Demod_posCount' = Demod_posCount + 1
               /\ Demod_posCount < 10 =>
                     /\ Demod_sumI' = Demod_sumI + StepSample[1]
                     /\ Demod_sumQ' = Demod_sumQ + StepSample[2]
               /\ Demod_posCount >= 10 => UNCHANGED <<Demod_sumI, Demod_sumQ>>
         /\ (Demod_state = DEMOD_PHASE_REF_TRAINING /\ Demod_posCount < 10
               /\ (~StepAbove \/ ~StepSame)) =>
               /\ Demod_state' = DEMOD_UNSYNCD
               /\ UNCHANGED <<Demod_sumI, Demod_sumQ>>
         /\ (Demod_state = DEMOD_PHASE_REF_TRAINING /\ Demod_posCount >= 10
               /\ StepAbove /\ ~StepSame) =>
               /\ Demod_state' = DEMOD_RECEIVING_DATA
               /\ UNCHANGED <<Demod_sumI, Demod_sumQ>>
         /\ Demod_state \notin {DEMOD_UNSYNCD, DEMOD_PHASE_REF_TRAINING} =>
               UNCHANGED <<Demod_sumI, Demod_sumQ>>]_vars

\* C29 witness: ten samples (6, 6) were summed, an eleventh was only counted,
\* and a twelfth with nothing on Q, the dominant axis, started RECEIVING_DATA
C29_Witness ==
    /\ callOp = "Handle14443bSamplesFromTag"
    /\ callArg.n = 12
    /\ Demod_state = DEMOD_RECEIVING_DATA
    /\ Demod_sumI = 60
    /\ Demod_sumQ = 60

-----------------------------------------------------------------------------
(* Properties of the reader UART's buffer, under UartCapSpec.              *)

\* C28: after any sequence of Uart14bInit/Uart14bReset, iso14b_set_maxframesize
\* and Handle14443bSampleFromReader, byteCnt <= byteCntMax <= MAX_FRAME_SIZE, the
\* cap lies in 1..256, and a byte is stored (byteCnt goes up by one) only at an
\* index below byteCntMax
C28_UartBufferBound ==
    /\ [](/\ Uart_byteCnt <= Uart_byteCntMax
          /\ Uart_byteCntMax <= MAX_FRAME_SIZE
          /\ Uart_byteCntMax >= 1)
    /\ [][Uart_byteCnt' = Uart_byteCnt + 1 => Uart_byteCnt < Uart_byteCntMax]_vars

-----------------------------------------------------------------------------
(* Properties of the sniffer, under SniffSpec.                             *)

\* the sniffer has read the whole line
SniffedAll == snPc \in {"run", "damaged"} /\ snRead = Len(snStream)

\* the turn of the loop just taken logged a reader frame
ReaderLogged ==
    /\ Len(snTrace') > Len(snTrace)
    /\ snTrace'[Len(snTrace) + 1].reader

\* Uart.state > STATE_14B_GOT_FALLING_EDGE_OF_SOF: the reader is transmitting
ReaderSending ==
    Uart_state \in {STATE_14B_AWAITING_START_BIT, STATE_14B_RECEIVING_DATA}

\* C25: the sniffer gives a word to the tag's demodulator only when the reader
\* UART is not inside a frame and a tag answer is expected, that is, a reader
\* frame completed before this word or with it; hence the trace never starts
\* with a tag entry and never holds two tag entries in a row. It holds in the
\* runs where a byte stored behind dm_buf was written onto a local too: the
\* demodulator is fed under the gate only, whatever the flags then hold.
C25_SniffTagGating ==
    /\ [](snTrace # <<>> => snTrace[1].reader)
    /\ [](\A i \in 1..(Len(snTrace) - 1) : snTrace[i].reader \/ snTrace[i + 1].reader)
    /\ [][snTagFed' => /\ ~ReaderSending'
                       /\ (expect_tag_answer \/ ReaderLogged)]_vars

\* the line with an unasked answer and a doubled answer was read to its end:
\* of its three tag frames only the one after the WUPB is in the trace
C25_Witness ==
    /\ SniffedAll
    /\ snStream = SniffLineUnasked
    /\ Len(snTrace) = 2
    /\ snTrace[1].reader /\ snTrace[1].data = cmdWUPB
    /\ ~snTrace[2].reader /\ snTrace[2].data = respOK

\* the transfer time the sniffer takes off eof_time, from the entry's length
TransferTime(e) ==
    IF e.reader THEN e.len * 1 + 32 * 16 + 16 * 16
    ELSE e.len * 8 * 8 * 16 + 32 * 16

\* a logged time below 2^31 and its value
U32Small(v) == v.hi < 32768

U32Val(v) == v.hi * 65536 + v.lo

\* C24: a reader frame followed by the tag's answer is logged as a reader
\* entry and a tag entry whose intervals [sof_time, eof_time] do not overlap
\* and are ordered in time, the reader's eof_time not after the tag's
\* sof_time; each sof_time is eof_time less the transfer time computed from
\* the byte count and the lengths of SOF and EOF.
C24_SniffTraceOrdered ==
    /\ \A i \in 1..Len(snTrace) :
          /\ U32Small(snTrace[i].sof) /\ U32Small(snTrace[i].eof)
          /\ U32Val(snTrace[i].sof)
                 = U32Val(snTrace[i].eof) - 4 * TransferTime(snTrace[i])
          /\ U32Val(snTrace[i].sof) <= U32Val(snTrace[i].eof)
    /\ \A i \in 1..(Len(snTrace) - 1) :
          snTrace[i].reader /\ ~snTrace[i + 1].reader
              => U32Val(snTrace[i].eof) <= U32Val(snTrace[i + 1].sof)
    /\ (SniffedAll /\ snStream = SniffLineAnswered)
          => /\ Len(snTrace) = 2
             /\ snTrace[1].reader /\ snTrace[1].data = cmdWUPB
             /\ ~snTrace[2].reader /\ snTrace[2].data = defaultATQB

\* Demod.state > WAIT_FOR_RISING_EDGE_OF_SOF: a tag frame is in progress
TagSending == DemodOrd(Demod_state) > DemodOrd(WAIT_FOR_RISING_EDGE_OF_SOF)

\* C39: after every turn of the sniffer's loop reader_is_active and
\* tag_is_active are not both true and the two decoders are not both inside a
\* frame; a word read while tag_is_active held is not given to the reader UART,
\* and a word after which reader_is_active holds is not given to the tag's
\* demodulator.
C39_SniffExclusive ==
    /\ [](~(reader_is_active /\ tag_is_active) /\ ~(ReaderSending /\ TagSending))
    /\ [][/\ (snRead' = snRead + 1 /\ tag_is_active) => ~snReaderFed'
          /\ (snRead' = snRead + 1 /\ reader_is_active') => ~snTagFed']_vars

-----------------------------------------------------------------------------
(* Properties of the receive loop found later, under GetAnswerSpec.        *)

\* C38: while Get14443bAnswerFromTag receives, Demod.len is 0 whenever the
\* demodulator is in DEMOD_UNSYNCD or DEMOD_PHASE_REF_TRAINING, and a frame
\* reported complete holds only bytes stored since the demodulator last left
\* DEMOD_UNSYNCD: on the line where the tag starts its answer again, the frame
\* returned is the answer and not the character of the broken attempt.
C38_NoStaleBytes ==
    /\ (gPc = "loop" /\ Demod_state \in {DEMOD_UNSYNCD, DEMOD_PHASE_REF_TRAINING})
          => Demod_len = 0
    /\ (gPc = "done" /\ gStream = RestartedSamples /\ gRet = PM3_SUCCESS
           /\ Demod_len > 0 /\ Demod_max_len = MAX_FRAME_SIZE)
          => Take(Demod_output, Demod_len) = respOK

\* C31: a receive that the button broke off is not handed to the caller as a
\* successful exchange: Get14443bAnswerFromTag returns PM3_SUCCESS only when
\* Handle14443bSamplesFromTag reported a frame, and no command is sent after a
\* receive that ended without one.
C31_AbortNotSuccess ==
    /\ (gPc = "done" /\ gRet = PM3_SUCCESS) => gEofTime > 0
    /\ gPc = "sent" => FrameReceived

-----------------------------------------------------------------------------
(* Properties of the field flag, under FieldSpec.                          *)

\* the operation done last ended by switching the field off
SwitchedOff ==
    \/ callOp \in ListenModes \cup {"read_14b_st_block"}
    \/ callOp = "SendRawCommand14443B" /\ callArg.flags.disconnect

\* C35: s_field_on is true only while the field is on: it is false after
\* every operation that ends with switch_off(), and a RAW request without
\* ISO14B_CONNECT that finds the field off sends no frame and is refused with
\* PM3_ERFTRANS.
C35_FieldFlagTracksField ==
    /\ s_field_on => fieldOn
    /\ SwitchedOff => ~s_field_on
    /\ (/\ callOp = "SendRawCommand14443B"
        /\ callArg.flags.raw
        /\ ~callArg.flags.connect
        /\ ~callArg.flags.disconnect
        /\ ~fieldOn) => callArg.reply = PM3_ERFTRANS

-----------------------------------------------------------------------------
(* Further properties of iso14443b_apdu, under Spec.                       *)

\* C36: when iso14443b_apdu returns PM3_ECRC, s_iso14b_pcb_blocknum is what
\* it was at entry.
C36_CrcErrorKeepsBlocknum ==
    (pc = "idle" /\ lastOp = "apdu" /\ status = PM3_ECRC)
        => s_iso14b_pcb_blocknum = entryBlocknum

\* C37: the S(WTX) branch is taken only for a received frame of at least 4
\* bytes (PCB, WTXM, CRC), so the WTXM byte read was received and AddCrc14B is
\* never called with a length below 2; each S(WTX) received is echoed once, and
\* a SUCCESS return never has an S(WTX) as its final response.
C37_WtxOnCompleteFrames ==
    /\ pc # "fault"
    /\ pc = "apdu_wtx_rx" => (Len(rxFrame) >= 4 /\ txCount = wtxRounds + 1)
    /\ (pc = "idle" /\ lastOp = "apdu" /\ retPath = "ok")
          => ~IsSWtx(rxFrame, Len(rxFrame))

-----------------------------------------------------------------------------
(* The reader's wake-up against the tag simulator, under SimSpec.          *)

\* C34: the frame iso14443b_select_card sends first (wupb) is answered with
\* ATQB by the simulator in each of the powered states IDLE, READY, ACTIVE and
\* HALT.
C34_WakeupAnswered ==
    (cmdsReceived > 0 /\ receivedCmd = wupb
       /\ simPrevState \in {SIM_IDLE, SIM_READY, SIM_ACTIVE, SIM_HALT})
        => simTx = respATQB

-----------------------------------------------------------------------------
(* The other select flows, under DispatchSpec.                             *)

\* the steps of SendRawCommand14443B that call a select function other than
\* iso14443b_select_card
OtherSelectSteps == {DOtherSelects[k].step : k \in 1..Len(DOtherSelects)}

\* C40: the select functions for SR-X, XRX, CTS and Picopass cards return
\* with s_iso14b_timeout, s_iso14b_fwt and s_iso14b_pcb_blocknum as they were
\* at entry, whatever status they return.
C40_OtherSelectsKeepTiming ==
    [][(dpc \in OtherSelectSteps /\ dpc' # dpc)
          => /\ s_iso14b_timeout' = s_iso14b_timeout
             /\ s_iso14b_fwt' = s_iso14b_fwt
             /\ s_iso14b_pcb_blocknum' = s_iso14b_pcb_blocknum]_vars

-----------------------------------------------------------------------------
(* iso14443b_select_srx_card: INITIATE, SELECT, GET_UID.                   *)

\* chip-IDs a tag draws
SrxChipIds == {0, 18, 52, 66}

\* what Get14443bAnswerFromTag(r_init, 3, ...) can deliver after INITIATE
SrxInitAnswers ==
    {Ok(WithCrc(<<c>>)) : c \in SrxChipIds}
        \cup {Ok(BadCrc(WithCrc(<<c>>))) : c \in SrxChipIds}
        \cup {Ok(<<18>>), Ok(<<52, 7>>), Ok(<<>>), Fail(PM3_ETIMEOUT)}

\* what Get14443bAnswerFromTag(r_select, 3, ...) can deliver after SELECT
SrxSelectAnswers ==
    {Ok(WithCrc(<<c>>)) : c \in SrxChipIds}
        \cup {Ok(BadCrc(WithCrc(<<18>>))), Ok(<<18>>), Ok(<<>>), Fail(PM3_ETIMEOUT)}

\* what Get14443bAnswerFromTag(r_papid, 10, ...) can deliver after GET_UID
SrxUidAnswers ==
    {Ok(WithCrc(<<1, 2, 3, 4, 5, 6, 2, 208>>)),
     Ok(WithCrc(<<9, 8, 7, 6, 5, 4, 2, 208>>)),
     Ok(BadCrc(WithCrc(<<1, 2, 3, 4, 5, 6, 2, 208>>))),
     Ok(WithCrc(<<1, 2, 3, 4>>)),
     Fail(PM3_ETIMEOUT)}

\* iso14443b_select_srx_card(card) on a zeroed descriptor, the tag answering
\* o1 to INITIATE, o2 to SELECT and o3 to GET_UID; callArg keeps the answers
\* the function asked for
SelectSrxCard(o1, o2, o3) ==
    LET f == SelectSrx(ZeroCard, <<o1, o2, o3>>)
    IN  /\ callOp' = "iso14443b_select_srx_card"
        /\ callArg' = SubSeq(<<o1, o2, o3>>, 1, f.asked)
        /\ callOut' = f

SrxNext ==
    /\ \E o1 \in SrxInitAnswers, o2 \in SrxSelectAnswers, o3 \in SrxUidAnswers :
           SelectSrxCard(o1, o2, o3)
    /\ UNCHANGED <<simVars, sessVars, apduVars, selVars, dispVars, uartVars, demodVars,
                   getVars, sniffVars, fieldVars, ringVars>>

SrxSpec == Init /\ [][SrxNext]_vars

\* the answer to INITIATE of the call made last
SrxInitAnswer == callArg[1]

\* C32: iso14443b_select_srx_card stores the chip-ID of the INITIATE response
\* and transmits SELECT only when that response is 3 bytes long with a valid
\* CRC-B; a response of another length ends the call with PM3_ELENGTH and one
\* with a bad CRC with PM3_ECRC, INITIATE being the only frame sent.
C32_SrxValidatesInitiate ==
    (callOp = "iso14443b_select_srx_card" /\ SrxInitAnswer.st = PM3_SUCCESS) =>
        /\ Len(SrxInitAnswer.data) # 3 =>
               (callOut.ret = PM3_ELENGTH /\ callOut.sent = <<SrxInitiate>>)
        /\ (Len(SrxInitAnswer.data) = 3 /\ ~CheckCrc14B(SrxInitAnswer.data, 3)) =>
               (callOut.ret = PM3_ECRC /\ callOut.sent = <<SrxInitiate>>)
        /\ (Len(callOut.sent) > 1 \/ callOut.card.chipid # 0) =>
               (Len(SrxInitAnswer.data) = 3 /\ CheckCrc14B(SrxInitAnswer.data, 3))

-----------------------------------------------------------------------------
(* The DMA ring: the PDC writes, the receive loop of Get14443bAnswerFromTag *)
(* and SniffIso14443b reads behind it.                                     *)

\* words the SSC receives in a run
MaxWords == 520

\* which word of the PDC slot k of dma->buf holds after w words were written,
\* 0 if none: the PDC fills the slots in order, again and again
RingSlot(k, w) ==
    IF w >= k + 1 THEN w - ((w - 1 - k) % DMA_BUFFER_SIZE) ELSE 0

\* the SSC receives a word: the PDC stores it at PDC_RPR and counts PDC_RCR
\* down; at 0 it raises ENDRX and takes pointer and counter of the next
\* buffer, if one is armed; with both counters 0 the word is dropped
PdcReceive ==
    /\ pdcWords < MaxWords
    /\ IF PDC_RCR = 0
       THEN /\ pdcOverrun' = TRUE
            /\ UNCHANGED <<PDC_RPR, PDC_RCR, PDC_RNCR, SSC_ENDRX, pdcWords>>
       ELSE /\ pdcWords' = pdcWords + 1
            /\ UNCHANGED pdcOverrun
            /\ IF PDC_RCR > 1
               THEN /\ PDC_RPR' = PDC_RPR + 1
                    /\ PDC_RCR' = PDC_RCR - 1
                    /\ UNCHANGED <<PDC_RNCR, SSC_ENDRX>>
               ELSE /\ SSC_ENDRX' = TRUE
                    /\ IF PDC_RNCR > 0
                       THEN /\ PDC_RPR' = 0
                            /\ PDC_RCR' = PDC_RNCR
                            /\ PDC_RNCR' = 0
                       ELSE /\ PDC_RPR' = PDC_RPR + 1
                            /\ PDC_RCR' = 0
                            /\ UNCHANGED PDC_RNCR
    /\ UNCHANGED <<rPc, rUpTo, rSamples, rGot>>

\* behindBy = (PDC_RPR - upTo) & (DMA_BUFFER_SIZE - 1)
BehindBy(rpr, upTo) == (rpr - upTo) % DMA_BUFFER_SIZE

\* the head of the loop: behindBy read; "continue" when it is 0
RingPoll ==
    /\ rPc = "poll"
    /\ BehindBy(PDC_RPR, rUpTo) # 0
    /\ rPc' = "take"
    /\ UNCHANGED <<PDC_RPR, PDC_RCR, PDC_RNCR, SSC_ENDRX, pdcWords, pdcOverrun, rUpTo,
                   rSamples, rGot>>

\* samples++ and "ci = *upTo >> 8", the first read of the slot
RingTake ==
    /\ rPc = "take"
    /\ rSamples' = rSamples + 1
    /\ rGot' = [rGot EXCEPT !.i = RingSlot(rUpTo, pdcWords)]
    /\ rPc' = "take_q"
    /\ UNCHANGED <<PDC_RPR, PDC_RCR, PDC_RNCR, SSC_ENDRX, pdcWords, pdcOverrun, rUpTo>>

\* "cq = *upTo", the second read of the slot, and upTo++; at the end of the
\* buffer upTo goes back to its start and the status register is looked at next
RingTakeQ ==
    /\ rPc = "take_q"
    /\ rGot' = [rGot EXCEPT !.q = RingSlot(rUpTo, pdcWords)]
    /\ IF rUpTo + 1 >= DMA_BUFFER_SIZE
       THEN /\ rUpTo' = 0
            /\ rPc' = "sr"
       ELSE /\ rUpTo' = rUpTo + 1
            /\ rPc' = "poll"
    /\ UNCHANGED <<PDC_RPR, PDC_RCR, PDC_RNCR, SSC_ENDRX, pdcWords, pdcOverrun, rSamples>>

\* "if (AT91C_BASE_SSC->SSC_SR & (AT91C_SSC_ENDRX))": the read of SSC_SR
RingStatus ==
    /\ rPc = "sr"
    /\ rPc' = IF SSC_ENDRX THEN "rcr" ELSE "poll"
    /\ UNCHANGED <<PDC_RPR, PDC_RCR, PDC_RNCR, SSC_ENDRX, pdcWords, pdcOverrun, rUpTo,
                   rSamples, rGot>>

\* "primary buffer was stopped": PDC_RCR read and, found 0, pointer and counter
\* armed again; writing a counter clears ENDRX
RingArmPrimary ==
    /\ rPc = "rcr"
    /\ rPc' = "rncr"
    /\ IF PDC_RCR = 0
       THEN /\ PDC_RPR' = 0
            /\ PDC_RCR' = DMA_BUFFER_SIZE
            /\ SSC_ENDRX' = FALSE
       ELSE UNCHANGED <<PDC_RPR, PDC_RCR, SSC_ENDRX>>
    /\ UNCHANGED <<PDC_RNCR, pdcWords, pdcOverrun, rUpTo, rSamples, rGot>>

\* "secondary buffer was stopped": PDC_RNCR read and, found 0, armed again;
\* then the button is tested
RingArmSecondary(button) ==
    /\ rPc = "rncr"
    /\ rPc' = IF button THEN "stopped" ELSE "poll"
    /\ IF PDC_RNCR = 0
       THEN /\ PDC_RNCR' = DMA_BUFFER_SIZE
            /\ SSC_ENDRX' = FALSE
       ELSE UNCHANGED <<PDC_RNCR, SSC_ENDRX>>
    /\ UNCHANGED <<PDC_RPR, PDC_RCR, pdcWords, pdcOverrun, rUpTo, rSamples, rGot>>

\* what the ring leaves alone
ringRest == <<simVars, sessVars, apduVars, selVars, dispVars, uartVars, demodVars,
              getVars, callVars, sniffVars, fieldVars>>

RingNext ==
    \/ PdcReceive /\ UNCHANGED ringRest
    \/ RingPoll /\ UNCHANGED ringRest
    \/ RingTake /\ UNCHANGED ringRest
    \/ RingTakeQ /\ UNCHANGED ringRest
    \/ RingStatus /\ UNCHANGED ringRest
    \/ RingArmPrimary /\ UNCHANGED ringRest
    \/ (\E button \in BOOLEAN : RingArmSecondary(button)) /\ UNCHANGED ringRest

RingSpec == Init /\ [][RingNext]_vars

\* C33: every word the PDC receives is handed to the loop exactly once and in
\* the order written, whatever the interleaving of the PDC and the loop: no
\* word is dropped, and the k-th sample the loop reads, ci and cq, is the k-th
\* word written.
C33_RingDelivery ==
    /\ [](~pdcOverrun)
    /\ [][(rPc = "take_q" /\ rPc' # "take_q")
            => (rGot'.i = rSamples /\ rGot'.q = rSamples)]_vars
====
